---------------------------- MODULE Spec2Model ----------------------------
(***************************************************************************)
(* Streaming video player extension: stream URL construction, format      *)
(* selection, quality labels and the player controller.                    *)
(*                                                                         *)
(* Strings are sequences of one-character strings, so that prefix tests,   *)
(* searches, replacements and decoding are computed character by           *)
(* character as the JavaScript string methods compute them.  The model     *)
(* covers printable ASCII.                                                 *)
(***************************************************************************)
EXTENDS Integers, Sequences, FiniteSets, TLC

\* null where a string is expected: a sequence that is no string of characters
NULL == <<"null">>

\* an optional option is <<>> when it is undefined and <<v>> when it is v
Undefined == <<>>

(***************************************************************************)
(* JavaScript string primitives                                            *)
(***************************************************************************)

\* printable ASCII, code 32 .. 126 (codes 92 and 96 are spelled out: they are not used)
Ascii ==
  <<
    " ", "!", "\"", "#", "$", "%", "&", "'", "(", ")", "*", "+", ",", "-", ".", "/",
    "0", "1", "2", "3", "4", "5", "6", "7", "8", "9", ":", ";", "<", "=", ">", "?",
    "@", "A", "B", "C", "D", "E", "F", "G", "H", "I", "J", "K", "L", "M", "N", "O",
    "P", "Q", "R", "S", "T", "U", "V", "W", "X", "Y", "Z", "[", "backslash", "]", "^", "_",
    "backtick", "a", "b", "c", "d", "e", "f", "g", "h", "i", "j", "k", "l", "m", "n", "o",
    "p", "q", "r", "s", "t", "u", "v", "w", "x", "y", "z", "{", "|", "}", "~"
  >>

\* String.prototype.charCodeAt for one character
CharCode(c) == 31 + (CHOOSE i \in 1..Len(Ascii) : Ascii[i] = c)

\* String.fromCharCode for a printable code
FromCharCode(n) == Ascii[n - 31]

\* String.prototype.startsWith
StartsWith(s, p) == Len(s) >= Len(p) /\ SubSeq(s, 1, Len(p)) = p

\* String.prototype.endsWith
EndsWith(s, p) == Len(s) >= Len(p) /\ SubSeq(s, Len(s) - Len(p) + 1, Len(s)) = p

\* does p occur in s at position i (1-based)
MatchAt(s, p, i) == i >= 1 /\ i + Len(p) - 1 <= Len(s) /\ SubSeq(s, i, i + Len(p) - 1) = p

\* the least element of a finite set of positions, 0 for the empty set
FirstOf(positions) ==
  IF positions = {} THEN 0 ELSE CHOOSE i \in positions : \A j \in positions : i <= j

\* String.prototype.indexOf, 1-based; 0 when p does not occur at or after from
IndexFrom(s, p, from) ==
  IF p = <<>> THEN (IF from <= Len(s) + 1 THEN from ELSE 0)
  ELSE FirstOf({i \in from..(Len(s) - Len(p) + 1) : s[i] = p[1] /\ MatchAt(s, p, i)})

\* String.prototype.includes
Includes(s, p) == IndexFrom(s, p, 1) # 0

\* String.prototype.substring(1)
Substring1(s) == SubSeq(s, 2, Len(s))

\* String.prototype.toLowerCase
LowerChar(c) == IF CharCode(c) >= 65 /\ CharCode(c) <= 90 THEN FromCharCode(CharCode(c) + 32) ELSE c

ToLowerCase(s) == [i \in 1..Len(s) |-> LowerChar(s[i])]

\* replace(/\/+$/, ''): drop every trailing slash
RECURSIVE StripTrailingSlashes(_)
StripTrailingSlashes(s) ==
  IF Len(s) > 0 /\ s[Len(s)] = "/" THEN StripTrailingSlashes(SubSeq(s, 1, Len(s) - 1)) ELSE s

\* GetSubstitution of String.prototype.replace for a pattern without capture
\* groups: in the replacement text $$ is a dollar sign, $& the match and
\* $' the text after the match.
RECURSIVE GetSubstitution(_, _, _, _, _)
GetSubstitution(rep, k, s, pos, mlen) ==
  IF k > Len(rep) THEN <<>>
  ELSE IF rep[k] = "$" /\ k < Len(rep) /\ rep[k + 1] = "$"
    THEN <<"$">> \o GetSubstitution(rep, k + 2, s, pos, mlen)
  ELSE IF rep[k] = "$" /\ k < Len(rep) /\ rep[k + 1] = "&"
    THEN SubSeq(s, pos, pos + mlen - 1) \o GetSubstitution(rep, k + 2, s, pos, mlen)
  ELSE IF rep[k] = "$" /\ k < Len(rep) /\ rep[k + 1] = "'"
    THEN SubSeq(s, pos + mlen, Len(s)) \o GetSubstitution(rep, k + 2, s, pos, mlen)
  ELSE <<rep[k]>> \o GetSubstitution(rep, k + 1, s, pos, mlen)

\* s.replace(/pat/g, rep) for a literal pattern: every non-overlapping match,
\* left to right, in one pass
RECURSIVE ReplaceFrom(_, _, _, _)
RECURSIVE ReplaceMatch(_, _, _, _, _)
ReplaceMatch(s, pat, rep, from, j) ==
  IF j = 0 THEN SubSeq(s, from, Len(s))
  ELSE SubSeq(s, from, j - 1) \o GetSubstitution(rep, 1, s, j, Len(pat))
       \o ReplaceFrom(s, pat, rep, j + Len(pat))

ReplaceFrom(s, pat, rep, from) == ReplaceMatch(s, pat, rep, from, IndexFrom(s, pat, from))

ReplaceAll(s, pat, rep) == ReplaceFrom(s, pat, rep, 1)

\* s.replace('pat', rep) with a string pattern: the first match only
ReplaceFirstAt(s, pat, rep, j) ==
  IF j = 0 THEN s
  ELSE SubSeq(s, 1, j - 1) \o GetSubstitution(rep, 1, s, j, Len(pat))
       \o SubSeq(s, j + Len(pat), Len(s))

ReplaceFirst(s, pat, rep) == ReplaceFirstAt(s, pat, rep, IndexFrom(s, pat, 1))

\* String(n) for a natural number
RECURSIVE NumToString(_)
NumToString(n) ==
  IF n < 10 THEN <<FromCharCode(48 + n)>>
  ELSE NumToString(n \div 10) \o <<FromCharCode(48 + (n % 10))>>

IsHexDigit(c) ==
  \/ (CharCode(c) >= 48 /\ CharCode(c) <= 57)
  \/ (CharCode(c) >= 65 /\ CharCode(c) <= 70)
  \/ (CharCode(c) >= 97 /\ CharCode(c) <= 102)

HexVal(c) ==
  IF CharCode(c) <= 57 THEN CharCode(c) - 48
  ELSE IF CharCode(c) <= 70 THEN CharCode(c) - 55
  ELSE CharCode(c) - 87

\* is the escape at position i of s one that decodeURIComponent decodes to a
\* printable ASCII character
GoodEscape(s, i) ==
  /\ i + 2 <= Len(s)
  /\ IsHexDigit(s[i + 1]) /\ IsHexDigit(s[i + 2])
  /\ 16 * HexVal(s[i + 1]) + HexVal(s[i + 2]) >= 32
  /\ 16 * HexVal(s[i + 1]) + HexVal(s[i + 2]) <= 126

\* decodeURIComponent throws a URIError on a malformed escape (a lone byte of
\* 0x80 and above is one; bytes below 0x20 are outside the modelled alphabet)
DecodeThrows(s) == \E i \in 1..Len(s) : s[i] = "%" /\ ~GoodEscape(s, i)

RECURSIVE DecodeFrom(_, _)
DecodeFrom(s, i) ==
  IF i > Len(s) THEN <<>>
  ELSE IF s[i] = "%"
    THEN <<FromCharCode(16 * HexVal(s[i + 1]) + HexVal(s[i + 2]))>> \o DecodeFrom(s, i + 3)
  ELSE <<s[i]>> \o DecodeFrom(s, i + 1)

\* try { x = decodeURIComponent(x) } catch (e) { /* keep x */ }
TryDecodeURIComponent(s) ==
  IF DecodeThrows(s) \/ \A i \in 1..Len(s) : s[i] # "%" THEN s ELSE DecodeFrom(s, 1)

(***************************************************************************)
(* CryptoJS.MD5 and CryptoJS.enc.Base64.stringify, as generateSecurePathHash*)
(* uses them.  A 32-bit word is a pair <<high, low>> of 16-bit halves.     *)
(***************************************************************************)

RECURSIVE And16(_, _, _)
And16(a, b, n) ==
  IF n = 0 THEN 0 ELSE (a % 2) * (b % 2) + 2 * And16(a \div 2, b \div 2, n - 1)

AndW(x, y) == <<And16(x[1], y[1], 16), And16(x[2], y[2], 16)>>

OrW(x, y) == <<x[1] + y[1] - And16(x[1], y[1], 16), x[2] + y[2] - And16(x[2], y[2], 16)>>

XorW(x, y) ==
  <<x[1] + y[1] - 2 * And16(x[1], y[1], 16), x[2] + y[2] - 2 * And16(x[2], y[2], 16)>>

NotW(x) == <<65535 - x[1], 65535 - x[2]>>

\* addition modulo 2^32
AddW(x, y) == <<(x[1] + y[1] + ((x[2] + y[2]) \div 65536)) % 65536, (x[2] + y[2]) % 65536>>

\* rotate left by n bits, 0 < n < 32
RotlW(x, n) ==
  LET y == IF n >= 16 THEN <<x[2], x[1]>> ELSE x
      r == n % 16
  IN IF r = 0 THEN y
     ELSE <<((y[1] * (2 ^ r)) % 65536) + (y[2] \div (2 ^ (16 - r))),
            ((y[2] * (2 ^ r)) % 65536) + (y[1] \div (2 ^ (16 - r)))>>

\* the sine table of MD5
MD5_T ==
  <<
    <<55146, 42104>>, <<59591, 46934>>, <<9248, 28891>>, <<49597, 52974>>,
    <<62844, 4015>>, <<18311, 50730>>, <<43056, 17939>>, <<64838, 38145>>,
    <<27008, 39128>>, <<35652, 63407>>, <<65535, 23473>>, <<35164, 55230>>,
    <<27536, 4386>>, <<64920, 29075>>, <<42617, 17294>>, <<18868, 2081>>,
    <<63006, 9570>>, <<49216, 45888>>, <<9822, 23121>>, <<59830, 51114>>,
    <<54831, 4189>>, <<580, 5203>>, <<55457, 59009>>, <<59347, 64456>>,
    <<8673, 52710>>, <<49975, 2006>>, <<62677, 3463>>, <<17754, 5357>>,
    <<43491, 59653>>, <<64751, 41976>>, <<26479, 729>>, <<36138, 19594>>,
    <<65530, 14658>>, <<34673, 63105>>, <<28061, 24866>>, <<64997, 14348>>,
    <<42174, 59972>>, <<19422, 53161>>, <<63163, 19296>>, <<48831, 48240>>,
    <<10395, 32454>>, <<60065, 10234>>, <<54511, 12421>>, <<1160, 7429>>,
    <<55764, 53305>>, <<59099, 39397>>, <<8098, 31992>>, <<50348, 22117>>,
    <<62505, 8772>>, <<17194, 65431>>, <<43924, 9127>>, <<64659, 41017>>,
    <<25947, 22979>>, <<36620, 52370>>, <<65519, 62589>>, <<34180, 24017>>,
    <<28584, 32335>>, <<65068, 59104>>, <<41729, 17172>>, <<19976, 4513>>,
    <<63315, 32386>>, <<48442, 62005>>, <<10967, 53947>>, <<60294, 54161>>
  >>

\* the shift amounts of MD5
MD5_S ==
  <<
    7, 12, 17, 22, 7, 12, 17, 22, 7, 12, 17, 22, 7, 12, 17, 22,
    5, 9, 14, 20, 5, 9, 14, 20, 5, 9, 14, 20, 5, 9, 14, 20,
    4, 11, 16, 23, 4, 11, 16, 23, 4, 11, 16, 23, 4, 11, 16, 23,
    6, 10, 15, 21, 6, 10, 15, 21, 6, 10, 15, 21, 6, 10, 15, 21
  >>

MD5_IV == <<<<26437, 8961>>, <<61389, 43913>>, <<39098, 56574>>, <<4146, 21622>>>>

\* the message bytes, the 0x80 marker, zeros up to 56 modulo 64, and the bit
\* length as eight little-endian bytes
MD5Pad(bytes) ==
  LET n == Len(bytes)
      z == (119 - n) % 64
      bits == 8 * n
  IN bytes \o <<128>> \o [i \in 1..z |-> 0]
     \o <<bits % 256, (bits \div 256) % 256, (bits \div 65536) % 256, 0, 0, 0, 0, 0>>

\* word g (0-based) of the 64-byte block that starts after byte off
MD5Word(p, off, g) ==
  <<p[off + 4 * g + 3] + 256 * p[off + 4 * g + 4], p[off + 4 * g + 1] + 256 * p[off + 4 * g + 2]>>

MD5F(i, b, c, d) ==
  IF i < 16 THEN OrW(AndW(b, c), AndW(NotW(b), d))
  ELSE IF i < 32 THEN OrW(AndW(d, b), AndW(NotW(d), c))
  ELSE IF i < 48 THEN XorW(XorW(b, c), d)
  ELSE XorW(c, OrW(b, NotW(d)))

MD5G(i) ==
  IF i < 16 THEN i
  ELSE IF i < 32 THEN (5 * i + 1) % 16
  ELSE IF i < 48 THEN (3 * i + 5) % 16
  ELSE (7 * i) % 16

\* steps i .. last - 1 on the state <<a, b, c, d>>
RECURSIVE MD5Steps(_, _, _, _, _)
MD5Steps(st, p, off, i, last) ==
  IF Len(st) # 4 \/ i = last THEN st
  ELSE LET f == AddW(AddW(AddW(MD5F(i, st[2], st[3], st[4]), st[1]), MD5_T[i + 1]),
                     MD5Word(p, off, MD5G(i)))
       IN MD5Steps(<<st[4], AddW(st[2], RotlW(f, MD5_S[i + 1])), st[2], st[3]>>, p, off, i + 1,
                   last)

\* the four rounds of sixteen steps on one block
MD5Rounds(st, p, off) ==
  MD5Steps(MD5Steps(MD5Steps(MD5Steps(st, p, off, 0, 16), p, off, 16, 32), p, off, 32, 48),
           p, off, 48, 64)

\* the state after a block: each word plus what the rounds made of it
MD5Add(st, r) == <<AddW(st[1], r[1]), AddW(st[2], r[2]), AddW(st[3], r[3]), AddW(st[4], r[4])>>

RECURSIVE MD5Blocks(_, _, _)
MD5Blocks(st, p, off) ==
  IF Len(st) # 4 \/ off >= Len(p) THEN st
  ELSE MD5Blocks(MD5Add(st, MD5Rounds(st, p, off)), p, off + 64)

WordBytes(w) == <<w[2] % 256, w[2] \div 256, w[1] % 256, w[1] \div 256>>

\* CryptoJS.MD5(input): the 16 digest bytes of the character codes of input
MD5(input) ==
  LET st == MD5Blocks(MD5_IV, MD5Pad([i \in 1..Len(input) |-> CharCode(input[i])]), 0)
  IN WordBytes(st[1]) \o WordBytes(st[2]) \o WordBytes(st[3]) \o WordBytes(st[4])

B64 ==
  <<
    "A", "B", "C", "D", "E", "F", "G", "H", "I", "J", "K", "L", "M", "N", "O", "P",
    "Q", "R", "S", "T", "U", "V", "W", "X", "Y", "Z", "a", "b", "c", "d", "e", "f",
    "g", "h", "i", "j", "k", "l", "m", "n", "o", "p", "q", "r", "s", "t", "u", "v",
    "w", "x", "y", "z", "0", "1", "2", "3", "4", "5", "6", "7", "8", "9", "+", "/"
  >>

\* CryptoJS.enc.Base64.stringify: four characters per three bytes, padded
\* with = to a multiple of four
RECURSIVE Base64Stringify(_, _)
Base64Stringify(bytes, i) ==
  IF i > Len(bytes) THEN <<>>
  ELSE LET b1 == bytes[i]
           b2 == IF i + 1 <= Len(bytes) THEN bytes[i + 1] ELSE 0
           b3 == IF i + 2 <= Len(bytes) THEN bytes[i + 2] ELSE 0
       IN <<B64[(b1 \div 4) + 1], B64[(b1 % 4) * 16 + (b2 \div 16) + 1],
            IF i + 1 <= Len(bytes) THEN B64[(b2 % 16) * 4 + (b3 \div 64) + 1] ELSE "=",
            IF i + 2 <= Len(bytes) THEN B64[(b3 % 64) + 1] ELSE "=">>
          \o Base64Stringify(bytes, i + 3)

(***************************************************************************)
(* useStreamUrl: generateSecurePathHash and getStreamUrl                   *)
(***************************************************************************)

HTTP == <<"h", "t", "t", "p", ":", "/", "/">>
HTTPS == <<"h", "t", "t", "p", "s", ":", "/", "/">>
PH_HOST_URL == <<"{", "{", "h", "o", "s", "t", "_", "u", "r", "l", "}", "}">>
PH_TOKEN == <<"{", "{", "t", "o", "k", "e", "n", "}", "}">>
PH_EXPIRES == <<"{", "{", "e", "x", "p", "i", "r", "e", "s", "}", "}">>
PH_ITEM_FIELD == <<"{", "{", "i", "t", "e", "m", "_", "f", "i", "e", "l", "d", "}", "}">>
API_PATH == <<"/", "a", "p", "i">>

\* the value a throw leaves in place of a result
THROWN == <<"thrown">>

\* the text that enters the digest
HashInput(expires, ip, secret, includeIp) ==
  IF includeIp /\ ip # NULL /\ ip # <<>>
  THEN expires \o <<" ">> \o ip \o <<" ">> \o secret
  ELSE expires \o <<" ">> \o secret

generateSecurePathHash(expires, ip, secret, includeIp) ==
  IF expires = <<>> THEN THROWN
  ELSE IF secret = <<>> THEN <<>>
  ELSE ReplaceAll(ReplaceAll(ReplaceAll(
         Base64Stringify(MD5(HashInput(expires, ip, secret, includeIp)), 1),
         <<"=">>, <<>>), <<"+">>, <<"-">>), <<"/">>, <<"_">>)

\* the expiry of the first version of the builder: one hour, whatever is
\* configured
ExpiresInMinutes_OneHour(o) == 60

\* options.expiresInMinutes ?? 60
ExpiresInMinutes(o) == IF o.expiresInMinutes = Undefined THEN 60 ELSE o.expiresInMinutes[1]

\* options.includeIp ?? false
IncludeIp(o) == IF o.includeIp = Undefined THEN FALSE ELSE o.includeIp[1]

\* A time in milliseconds is a pair <<seconds, milliseconds below 1000>>.
\* new Date(Date.now() + expiresInMinutes * 60 * 1000).getTime()
ExpiresTimestamp(now, o) == <<now[1] + ExpiresInMinutes(o) * 60, now[2]>>

\* String(Math.round(expiresTimestamp / 1000))
ExpiresString(now, o) ==
  LET ts == ExpiresTimestamp(now, o)
  IN NumToString(ts[1] + (IF ts[2] >= 500 THEN 1 ELSE 0))

\* The options and times the model draws from: the secrets, the includeIp and
\* expiresInMinutes options, and a clock that starts at FirstSecond and
\* advances in steps of TickMs milliseconds, MaxTicks times at most.
Secret == <<"s", "3", "c", "r", "e", "t">>
StreamSecrets == {<<>>, Secret}
IncludeIps == {Undefined, <<TRUE>>}
Ttls == {Undefined, <<60>>, <<5>>}
FirstSecond == 1764935709
TickMs == 500
MaxTicks == 2

\* a builder that knows an address of the client
IpFor_Known(includeIp) == IF includeIp THEN <<"1", "0", ".", "0", ".", "0", ".", "7">> ELSE NULL

\* the ip handed to generateSecurePathHash: includeIp ? '' : null
IpFor(includeIp) == IF includeIp THEN <<>> ELSE NULL

\* generateSecurePathHash on the expiry strings these options and times can
\* produce, computed once
HashTable ==
  LET last == FirstSecond + ((MaxTicks * TickMs) \div 1000) + 1
      expiries == {NumToString(sec + ExpiresInMinutes([expiresInMinutes |-> t]) * 60) :
                     sec \in FirstSecond..last, t \in Ttls}
  IN {<<k, generateSecurePathHash(k[1], IpFor(k[3]), k[2], k[3])>> :
        k \in expiries \X (StreamSecrets \ {<<>>}) \X BOOLEAN}

\* generateSecurePathHash(expires, ip, streamSecret, includeIp), k being
\* <<expires, streamSecret, includeIp>>
HashFor(k) ==
  IF \E e \in HashTable : e[1] = k THEN (CHOOSE e \in HashTable : e[1] = k)[2]
  ELSE generateSecurePathHash(k[1], IpFor(k[3]), k[2], k[3])

\* the token for the current options and time
TokenFor(now, o) == HashFor(<<ExpiresString(now, o), o.streamSecret, IncludeIp(o)>>)

\* value || fallback for strings
OrElse(value, fallback) == IF value # <<>> THEN value ELSE fallback

\* a host URL without an http(s) protocol is replaced by the page origin
EnsureProtocol(h, o) == IF ~StartsWith(h, HTTP) /\ ~StartsWith(h, HTTPS) THEN o.origin ELSE h

\* the host URL both branches start from: the option, else the API base URL
\* without its first /api, else the page origin
HostOrDefault(o) ==
  EnsureProtocol(
    OrElse(o.hostUrl,
           OrElse(ReplaceFirst(OrElse(o.apiBaseUrl, o.origin \o API_PATH), API_PATH, <<>>),
                  o.origin)),
    o)

\* the reference without one leading slash
WithoutLeadingSlash(streamLink) ==
  IF StartsWith(streamLink, <<"/">>) THEN Substring1(streamLink) ELSE streamLink

\* the reference with a leading slash
WithLeadingSlash(streamLink) ==
  IF ~StartsWith(streamLink, <<"/">>) THEN <<"/">> \o streamLink ELSE streamLink

\* does the template ask for a token or an expiry
WantsToken(template) == Includes(template, PH_TOKEN) \/ Includes(template, PH_EXPIRES)

\* .replace(/\{\{token\}\}/g, token).replace(/\{\{expires\}\}/g, expires)
ReplaceTokenExpires(url, token, expires) ==
  IF token = THROWN THEN THROWN
  ELSE ReplaceAll(ReplaceAll(url, PH_TOKEN, token), PH_EXPIRES, expires)

\* the schema, decoded, with {{host_url}} replaced by the host URL without
\* its trailing slashes
SchemaWithHost(o) ==
  ReplaceAll(TryDecodeURIComponent(o.urlSchema), PH_HOST_URL,
             StripTrailingSlashes(HostOrDefault(o)))

\* {{item_field}} replaced by the normalized reference
SchemaWithItem(withHost, normalizedStreamLink) ==
  IF Includes(withHost, PH_ITEM_FIELD)
  THEN ReplaceAll(withHost, PH_ITEM_FIELD, normalizedStreamLink)
  ELSE withHost

\* {{token}} and {{expires}} removed without a secret, generated with one
SchemaWithToken(withHost, withItem, o, now) ==
  IF WantsToken(withHost)
  THEN IF o.streamSecret = <<>> THEN ReplaceTokenExpires(withItem, <<>>, <<>>)
       ELSE ReplaceTokenExpires(withItem, TokenFor(now, o), ExpiresString(now, o))
  ELSE withItem

\* the normalized reference appended when the schema had no {{item_field}}
SchemaAppend(withHost, withToken, normalizedStreamLink) ==
  IF withToken = THROWN THEN THROWN
  ELSE IF ~Includes(withHost, PH_ITEM_FIELD)
  THEN withToken \o (IF EndsWith(withToken, <<"/">>) THEN <<>> ELSE <<"/">>)
       \o normalizedStreamLink
  ELSE withToken

SchemaFrom(withHost, normalizedStreamLink, o, now) ==
  SchemaAppend(withHost,
               SchemaWithToken(withHost, SchemaWithItem(withHost, normalizedStreamLink), o, now),
               normalizedStreamLink)

\* the branch taken when options.urlSchema is set
SchemaUrl(streamLink, o, now) ==
  SchemaFrom(SchemaWithHost(o), WithoutLeadingSlash(streamLink), o, now)

\* the host URL template with its trailing slashes left in place
HostUrlTemplate_KeepSlashes(o) == TryDecodeURIComponent(HostOrDefault(o))

\* the host URL template of the fallback branch: decoded, without trailing
\* slashes
HostUrlTemplate(o) == StripTrailingSlashes(TryDecodeURIComponent(HostOrDefault(o)))

\* {{item_field}} of the host URL template replaced by the reference
\* without its leading slash
FallbackWithItem(template, streamLink) ==
  IF Includes(template, PH_ITEM_FIELD)
  THEN ReplaceAll(template, PH_ITEM_FIELD, WithoutLeadingSlash(streamLink))
  ELSE template

\* {{token}} and {{expires}} removed without a secret, generated with one;
\* trailing slashes dropped
FallbackWithToken(template, withItem, o, now) ==
  IF WantsToken(template)
  THEN IF o.streamSecret = <<>>
       THEN StripTrailingSlashes(ReplaceTokenExpires(withItem, <<>>, <<>>))
       ELSE StripTrailingSlashes(
              ReplaceTokenExpires(withItem, TokenFor(now, o), ExpiresString(now, o)))
  ELSE StripTrailingSlashes(withItem)

\* the reference appended when the template had no {{item_field}}
FallbackAppend(template, withToken, streamLink) ==
  IF withToken = THROWN THEN THROWN
  ELSE IF ~Includes(template, PH_ITEM_FIELD) THEN withToken \o streamLink
  ELSE withToken

FallbackFrom(template, streamLink, o, now) ==
  IF WantsToken(template) \/ Includes(template, PH_ITEM_FIELD)
  THEN FallbackAppend(template,
                      FallbackWithToken(template, FallbackWithItem(template, streamLink), o, now),
                      streamLink)
  ELSE template \o streamLink

\* the branch taken when options.urlSchema is not set: hostUrl is the template
FallbackUrl(streamLink, o, now) ==
  FallbackFrom(HostUrlTemplate(o), WithLeadingSlash(streamLink), o, now)

\* catch (error): the page origin followed by the reference
Caught(url, streamLink, o) ==
  IF url = THROWN
  THEN o.origin \o (IF o.urlSchema # <<>> THEN streamLink ELSE WithLeadingSlash(streamLink))
  ELSE url

\* getStreamUrl taking only https:// references for full URLs
getStreamUrl_HttpsOnly(streamLink, o, now) ==
  IF streamLink = <<>> THEN NULL
  ELSE IF StartsWith(streamLink, HTTPS) THEN streamLink
  ELSE IF o.urlSchema # <<>> THEN Caught(SchemaUrl(streamLink, o, now), streamLink, o)
  ELSE Caught(FallbackUrl(streamLink, o, now), streamLink, o)

\* getStreamUrl(streamLink) under the options o at the time now
getStreamUrl(streamLink, o, now) ==
  IF streamLink = <<>> THEN NULL
  ELSE IF StartsWith(streamLink, HTTP) \/ StartsWith(streamLink, HTTPS) THEN streamLink
  ELSE IF o.urlSchema # <<>> THEN Caught(SchemaUrl(streamLink, o, now), streamLink, o)
  ELSE Caught(FallbackUrl(streamLink, o, now), streamLink, o)

(***************************************************************************)
(* formatQuality                                                           *)
(***************************************************************************)

LABEL_4K == <<"4", "K">>

\* `${height}p`
HeightP(height) == NumToString(height) \o <<"p">>

\* formatQuality without the 540p step
formatQuality_No540(height) ==
  IF height = Undefined \/ height[1] = 0 THEN NULL
  ELSE IF height[1] >= 2160 THEN LABEL_4K
  ELSE IF height[1] >= 1440 THEN HeightP(1440)
  ELSE IF height[1] >= 1080 THEN HeightP(1080)
  ELSE IF height[1] >= 720 THEN HeightP(720)
  ELSE IF height[1] >= 480 THEN HeightP(480)
  ELSE IF height[1] >= 360 THEN HeightP(360)
  ELSE IF height[1] >= 240 THEN HeightP(240)
  ELSE HeightP(height[1])

\* useHlsPlayer.ts; height is Undefined or <<h>>
formatQuality(height) ==
  IF height = Undefined \/ height[1] = 0 THEN NULL
  ELSE IF height[1] >= 2160 THEN LABEL_4K
  ELSE IF height[1] >= 1440 THEN HeightP(1440)
  ELSE IF height[1] >= 1080 THEN HeightP(1080)
  ELSE IF height[1] >= 720 THEN HeightP(720)
  ELSE IF height[1] >= 540 THEN HeightP(540)
  ELSE IF height[1] >= 480 THEN HeightP(480)
  ELSE IF height[1] >= 360 THEN HeightP(360)
  ELSE IF height[1] >= 240 THEN HeightP(240)
  ELSE HeightP(height[1])

\* useReplacementPlayer.ts
formatQualityReplacement(height) ==
  IF height = Undefined \/ height[1] = 0 THEN NULL
  ELSE IF height[1] >= 2160 THEN LABEL_4K
  ELSE IF height[1] >= 1440 THEN HeightP(1440)
  ELSE IF height[1] >= 1080 THEN HeightP(1080)
  ELSE IF height[1] >= 720 THEN HeightP(720)
  ELSE IF height[1] >= 480 THEN HeightP(480)
  ELSE IF height[1] >= 360 THEN HeightP(360)
  ELSE IF height[1] >= 240 THEN HeightP(240)
  ELSE HeightP(height[1])

\* useDashPlayer.ts
formatQualityDash(height) ==
  IF height = Undefined \/ height[1] = 0 THEN NULL
  ELSE IF height[1] >= 2160 THEN LABEL_4K
  ELSE IF height[1] >= 1440 THEN HeightP(1440)
  ELSE IF height[1] >= 1080 THEN HeightP(1080)
  ELSE IF height[1] >= 720 THEN HeightP(720)
  ELSE IF height[1] >= 540 THEN HeightP(540)
  ELSE IF height[1] >= 480 THEN HeightP(480)
  ELSE IF height[1] >= 360 THEN HeightP(360)
  ELSE IF height[1] >= 240 THEN HeightP(240)
  ELSE HeightP(height[1])

(***************************************************************************)
(* State                                                                   *)
(***************************************************************************)

VARIABLES
  uOpts,      \* the options useStreamUrl was created with, and the page origin
  uNow,       \* Date.now(), as <<seconds, milliseconds>>
  uLink,      \* the stream reference handed to getStreamUrl
  uCallTime,  \* Date.now() at the last getStreamUrl call
  uResult,    \* what the last getStreamUrl call returned
  uCalled,    \* has getStreamUrl been called
  qHeight,    \* the height handed to formatQuality
  qLabel,     \* what formatQuality of the HLS player returned
  qLabelDash, \* what formatQuality of the DASH player returned
  qLabelReplacement, \* what formatQuality of the replacement player returned
  qCalled,    \* the players whose formatQuality has been called
  isStringField,  \* the field holds a stream reference, not a file id
  isFileModule,   \* the field belongs to the file library (props.collection)
  hlsSupported,   \* Hls.isSupported() in this browser
  canPlayNative,  \* video.canPlayType('application/vnd.apple.mpegurl')
  mounted,        \* "setup" before onMounted, then "mounted", then "unmounted"
  propsValue,     \* props.value: a stream reference or a file id, <<>> when empty
  fileData,       \* the loaded file as <<id, stream link>>, <<>> when none
  useHls,         \* the playback format switch
  toggles,        \* the invocations of the switch-format action so far, modulo 2
  rendered,       \* the <video> the field section exposes, 0 when none
  videoElement,   \* videoElement.value, 0 when null
  hostContainer,  \* the host page shows a .file-preview container
  hostVideo,      \* the <video> inside the host's .file-preview, 0 when none
  infoOverlays,   \* the .replacement-player-info elements inside the .file-preview
  toggleControls, \* the .format-toggle-container elements inside the .file-preview
  retryTimer,     \* the id of the last retry timer of replaceDefaultVideoPlayer
  replacementQuality, \* replacementQuality.value of the takeover player
  replaced,       \* the elements whose dataset.replacedByHls is 'true'
  replacementVideoElement, \* replacementVideoElement.value, 0 when null
  engines,        \* the engine instances created and not destroyed, in creation order
  destroyedOn,    \* the elements an engine instance was destroyed on
  streamUrlOf,    \* getStreamUrl as the composables hold it: its result for each link
  videoSrc,       \* the src of every video element, <<>> when unset
  tasks,          \* the callbacks that are scheduled and have not run yet
  oLevels,        \* the heights of the renditions the engine lists, in its order
  oCurrent,       \* hls.currentLevel, or the quality index of dash.js; -1 when none
  oEventRep,      \* the representation an event hands to updateQuality, <<>> when none
  oApiRep,        \* getCurrentRepresentationForType('video'), <<>> when none
  oVideoHeight,   \* videoEl.videoHeight
  oMain,          \* the session runs on the bound element of the component
  currentQuality, \* currentQuality.value
  oRan,           \* the observer that ran last: "hls", "dash", or "none"
  hlsInstance,    \* hlsInstance.value is an engine instance
  dashInstance,   \* dashInstance.value is an engine instance
  cspError,       \* cspError.value of the HLS player
  dashCspError,   \* cspError.value of the DASH player
  mediaError,     \* videoEl.error as <<code, message>>, <<>> when null
  errorListeners, \* the players whose handleVideoError listens on the element
  cspTimers,      \* the players with a pending checkForCspError timer
  cspCallback,    \* setCspError is in activeErrorCallbacks and the violation listener is set
  playListener,   \* onPlayHandler listens for play on the element
  manifestParsed, \* the engine has parsed the manifest of the session
  loading,        \* the engine loads segments
  startLoads,     \* the startLoad() calls of the play handler in this session
  plays,          \* the play events of the element in this session
  elementSrc,     \* the src of the bound element: "none", "stream" or "progressive"
  progressiveKnown, \* the fallback knows a progressive URL
  fallbacks,      \* the calls of the fallback in the last setup
  created,        \* the engine instances created by the last setup
  cspCause,       \* the cause of the signal that set cspError, "none" when unset
  fatalCause,     \* the cause of the fatal engine error of this session, "none" when none
  composables,    \* the useHlsPlayer instances of the page that were created
  activeErrorCallbacks, \* the instances whose setCspError is in activeErrorCallbacks
  violationListeners,   \* the instances whose cspViolationListener listens on the window
  instanceCspError,     \* cspError.value of each instance
  consoleErrorInterceptorActive, \* the module-level flag of the interceptor
  wraps,          \* how often console.error was replaced
  consoleCalls,   \* the calls of console.error by the page
  originalCalls,  \* the calls that reached the original console.error
  lastSignal,     \* the signal dispatched last, <<>> when none
  isEditingStringField, \* isEditingStringField.value of useStringFieldHandlers
  editingValue,   \* editingValue.value, a string or null
  fieldValue,     \* props.value of the string field, a string or null
  inputOptions,   \* inputOptions.value: softLength, trim, clear, slug
  emitted         \* the values of the `input` events emitted, in order

urlVars == <<uOpts, uNow, uLink, uCallTime, uResult, uCalled>>
qualityVars == <<qHeight, qLabel, qLabelDash, qLabelReplacement, qCalled>>
playerVars ==
  <<isStringField, isFileModule, hlsSupported, canPlayNative, mounted, propsValue, fileData,
    useHls, toggles, rendered, videoElement, hostContainer, hostVideo, infoOverlays, toggleControls,
    retryTimer, replacementQuality, replaced, replacementVideoElement, engines, destroyedOn, streamUrlOf, videoSrc,
    tasks>>
observerVars ==
  <<oLevels, oCurrent, oEventRep, oApiRep, oVideoHeight, oMain, currentQuality, oRan>>
sessionVars ==
  <<hlsInstance, dashInstance, cspError, dashCspError, mediaError, errorListeners, cspTimers,
    cspCallback, playListener, manifestParsed, loading, startLoads, plays, elementSrc,
    progressiveKnown, fallbacks, created, cspCause, fatalCause>>
registryVars ==
  <<composables, activeErrorCallbacks, violationListeners, instanceCspError,
    consoleErrorInterceptorActive, wraps, consoleCalls, originalCalls, lastSignal>>
editVars == <<isEditingStringField, editingValue, fieldValue, inputOptions, emitted>>
restVars == <<observerVars, sessionVars, registryVars, editVars>>
vars == <<urlVars, qualityVars, playerVars, restVars>>

\* the video elements a run can create
MaxElements == 2
Elements == 1..MaxElements

\* the quality observer of a session that is not part of the run
ObserverParked ==
  /\ oLevels = <<>>
  /\ oCurrent = -1
  /\ oEventRep = <<>>
  /\ oApiRep = <<>>
  /\ oVideoHeight = 0
  /\ oMain = TRUE
  /\ currentQuality = <<"null">>
  /\ oRan = "none"

\* the player session of a component that is not part of the run
SessionParked ==
  /\ hlsInstance = FALSE
  /\ dashInstance = FALSE
  /\ cspError = <<"null">>
  /\ dashCspError = <<"null">>
  /\ mediaError = <<>>
  /\ errorListeners = {}
  /\ cspTimers = {}
  /\ cspCallback = TRUE
  /\ playListener = FALSE
  /\ manifestParsed = FALSE
  /\ loading = FALSE
  /\ startLoads = 0
  /\ plays = 0
  /\ elementSrc = "none"
  /\ progressiveKnown = FALSE
  /\ fallbacks = 0
  /\ created = 0
  /\ cspCause = "none"
  /\ fatalCause = "none"

\* the player instances of a page that is not part of the run
MaxInstances == 2
Instances == 1..MaxInstances

RegistryParked ==
  /\ composables = {}
  /\ activeErrorCallbacks = {}
  /\ violationListeners = {}
  /\ instanceCspError = [i \in Instances |-> <<"null">>]
  /\ consoleErrorInterceptorActive = FALSE
  /\ wraps = 0
  /\ consoleCalls = 0
  /\ originalCalls = 0
  /\ lastSignal = <<>>

\* the input of a string field that is not part of the run
EditParked ==
  /\ isEditingStringField = FALSE
  /\ editingValue = <<"null">>
  /\ fieldValue = <<"null">>
  /\ inputOptions = [softLength |-> <<>>, trim |-> FALSE, clear |-> FALSE, slug |-> FALSE]
  /\ emitted = <<>>

RestParked == ObserverParked /\ SessionParked /\ RegistryParked /\ EditParked

\* the player of a component that is not part of the run
BrowserParked ==
  /\ hlsSupported = TRUE
  /\ canPlayNative = FALSE

ComponentParked ==
  /\ isStringField = TRUE
  /\ isFileModule = FALSE
  /\ mounted = "setup"
  /\ propsValue = <<>>
  /\ fileData = <<>>
  /\ useHls = TRUE
  /\ toggles = 0
  /\ rendered = 0
  /\ videoElement = 0
  /\ hostContainer = FALSE
  /\ hostVideo = 0
  /\ infoOverlays = 0
  /\ toggleControls = 0
  /\ retryTimer = 0
  /\ replacementQuality = <<"null">>
  /\ replaced = {}
  /\ replacementVideoElement = 0
  /\ engines = <<>>
  /\ destroyedOn = {}
  /\ streamUrlOf = <<>>
  /\ videoSrc = [e \in Elements |-> <<>>]
  /\ tasks = {}

PlayerParked == BrowserParked /\ ComponentParked

(***************************************************************************)
(* The stream URL builder as a state machine: a clock and getStreamUrl     *)
(* calls under fixed options                                               *)
(***************************************************************************)

Origin == HTTPS \o <<"d", "i", "r", "e", "c", "t", "u", "s", ".", "l", "o", "c", "a", "l">>
ApiBase == Origin \o API_PATH
ExampleCom == <<"e", "x", "a", "m", "p", "l", "e", ".", "c", "o", "m">>
HostExample == HTTPS \o ExampleCom
HostExampleStream == HostExample \o <<"/", "s", "t", "r", "e", "a", "m", "/">>
HostNoProtocol == ExampleCom
HostTemplate == HostExample \o <<"/">> \o PH_TOKEN \o <<"/">> \o PH_EXPIRES
HostEncoded ==
  HostExample \o <<"/", "%", "7", "B", "%", "7", "B", "t", "o", "k", "e", "n", "%", "7", "D", "%", "7", "D">>
HostNested == HostExample \o <<"/", "{", "{", "t", "o">> \o PH_EXPIRES \o <<"k", "e", "n", "}", "}">>

SchemaReadme == PH_HOST_URL \o PH_TOKEN \o <<"/">> \o PH_EXPIRES \o <<"/">> \o PH_ITEM_FIELD
SchemaItemOnly == PH_HOST_URL \o <<"/">> \o PH_ITEM_FIELD
SchemaNoItem == PH_HOST_URL \o <<"/", "h", "l", "s", "/">> \o PH_TOKEN \o <<"/">> \o PH_EXPIRES
SchemaSlash == PH_HOST_URL \o <<"/", "v", "/">>
SchemaEncoded ==
  <<"%", "7", "B", "%", "7", "B", "h", "o", "s", "t", "_", "u", "r", "l", "%", "7", "D", "%", "7", "D", "/">>
  \o PH_ITEM_FIELD \o <<"?", "e", "=">> \o PH_EXPIRES

M3U8 == <<".", "m", "3", "u", "8">>
CdnExample == <<"c", "d", "n", ".", "e", "x", "a", "m", "p", "l", "e", "/">>
RefPlaylist == <<"m", "y", "_", "p", "l", "a", "y", "l", "i", "s", "t">> \o M3U8
RefVideo == <<"/", "s", "t", "r", "e", "a", "m", "/", "m", "y", "_", "v", "i", "d", "e", "o">> \o M3U8
RefHttps == HTTPS \o CdnExample \o <<"x">> \o M3U8
RefHttp == HTTP \o CdnExample \o PH_TOKEN \o <<"/", "x", ".", "m", "p", "d">>
RefFtp == <<"f", "t", "p", ":", "/", "/">> \o CdnExample \o <<"x">> \o M3U8
RefUpper == <<"H", "T", "T", "P", "S", ":", "/", "/">> \o CdnExample \o <<"x">> \o M3U8
RefToken == <<"a", "/">> \o PH_TOKEN \o M3U8
RefDollar == <<"a", "$", "$", "b">> \o M3U8

HostUrls ==
  {<<>>, HostExample, HostExampleStream, HostNoProtocol, HostTemplate, HostEncoded, HostNested}
UrlSchemas == {<<>>, SchemaReadme, SchemaItemOnly, SchemaNoItem, SchemaSlash, SchemaEncoded}
StreamLinks ==
  {<<>>, RefPlaylist, RefVideo, RefHttps, RefHttp, RefFtp, RefUpper, RefToken, RefDollar}

UrlOptions ==
  [hostUrl : HostUrls, urlSchema : UrlSchemas, streamSecret : StreamSecrets,
   includeIp : IncludeIps, expiresInMinutes : Ttls, apiBaseUrl : {ApiBase}, origin : {Origin}]

QualityParked ==
  /\ qHeight = Undefined
  /\ qLabel = NULL
  /\ qLabelDash = NULL
  /\ qLabelReplacement = NULL
  /\ qCalled = {}

UrlInit ==
  /\ uOpts \in UrlOptions
  /\ uLink \in StreamLinks
  /\ uNow = <<FirstSecond, 0>>
  /\ uCallTime = <<FirstSecond, 0>>
  /\ uResult = NULL
  /\ uCalled = FALSE
  /\ QualityParked
  /\ PlayerParked
  /\ RestParked

\* time passes
Tick ==
  /\ (uNow[1] - FirstSecond) * 1000 + uNow[2] < MaxTicks * TickMs
  /\ uNow' = <<uNow[1] + ((uNow[2] + TickMs) \div 1000), (uNow[2] + TickMs) % 1000>>
  /\ UNCHANGED <<uOpts, uLink, uCallTime, uResult, uCalled, qualityVars, playerVars, restVars>>

\* getStreamUrl(streamLink)
CallGetStreamUrl ==
  /\ uCallTime' = uNow
  /\ uResult' = getStreamUrl(uLink, uOpts, uNow)
  /\ uCalled' = TRUE
  /\ UNCHANGED <<uOpts, uLink, uNow, qualityVars, playerVars, restVars>>

UrlNext ==
  \/ Tick
  \/ CallGetStreamUrl

SpecUrl == UrlInit /\ [][UrlNext]_vars

(***************************************************************************)
(* Properties of getStreamUrl                                              *)
(***************************************************************************)

\* a non-empty reference that getStreamUrl does not take for a full URL
RelativeLink(streamLink) ==
  streamLink # <<>> /\ ~StartsWith(streamLink, HTTP) /\ ~StartsWith(streamLink, HTTPS)

\* a string of n decimal digits
IsDigits(s, n) == Len(s) = n /\ \A i \in 1..Len(s) : CharCode(s[i]) >= 48 /\ CharCode(s[i]) <= 57

\* does s start with a URL scheme: letters, then a colon
HasScheme(s) ==
  \E k \in 2..Len(s) :
    /\ s[k] = ":"
    /\ \A i \in 1..(k - 1) : CharCode(LowerChar(s[i])) >= 97 /\ CharCode(LowerChar(s[i])) <= 122

\* the template the token and the expiry are substituted into: the schema
\* with the host URL in it, or the host URL
UrlTemplate(o) == IF o.urlSchema # <<>> THEN SchemaWithHost(o) ELSE HostUrlTemplate(o)

C2_Scenario ==
  /\ uCalled
  /\ uOpts.hostUrl = HostExampleStream
  /\ uOpts.urlSchema = SchemaReadme
  /\ uLink = RefPlaylist
  /\ uOpts.streamSecret = Secret
  /\ uOpts.expiresInMinutes = <<60>>

\* C2: for host URL https://example.com/stream/, schema
\* {{host_url}}{{token}}/{{expires}}/{{item_field}}, reference
\* my_playlist.m3u8, a secret and ttl 60, getStreamUrl returns
\* https://example.com/stream/<22 characters>/<10 digits>/my_playlist.m3u8:
\* the host path and the token are separated by a slash.
C2_ReadmeSchemaExample ==
  C2_Scenario =>
    /\ Len(uResult) = Len(HostExampleStream) + 22 + 1 + 10 + 1 + Len(RefPlaylist)
    /\ StartsWith(uResult, HostExampleStream)
    /\ uResult[Len(HostExampleStream) + 23] = "/"
    /\ IsDigits(SubSeq(uResult, Len(HostExampleStream) + 24, Len(HostExampleStream) + 33), 10)
    /\ EndsWith(uResult, <<"/">> \o RefPlaylist)

\* C3: with no schema, hostUrl https://example.com, reference
\* /stream/my_video.m3u8 and no secret the result is exactly
\* https://example.com/stream/my_video.m3u8; and for every relative reference,
\* with no schema and a hostUrl that starts with http:// or https:// and has
\* no placeholder once percent-decoded, the result is the decoded host
\* without trailing slashes, one slash, and the reference without its leading
\* slash.
C3_DefaultBehaviour ==
  /\ (uCalled /\ uOpts.urlSchema = <<>> /\ uOpts.hostUrl = HostExample /\ uLink = RefVideo
        /\ uOpts.streamSecret = <<>>)
       => uResult = HTTPS \o ExampleCom
                    \o <<"/", "s", "t", "r", "e", "a", "m", "/", "m", "y", "_", "v", "i", "d", "e", "o",
                         ".", "m", "3", "u", "8">>
  /\ (uCalled /\ uOpts.urlSchema = <<>> /\ RelativeLink(uLink)
        /\ (StartsWith(uOpts.hostUrl, HTTP) \/ StartsWith(uOpts.hostUrl, HTTPS))
        /\ ~Includes(TryDecodeURIComponent(uOpts.hostUrl), PH_TOKEN)
        /\ ~Includes(TryDecodeURIComponent(uOpts.hostUrl), PH_EXPIRES)
        /\ ~Includes(TryDecodeURIComponent(uOpts.hostUrl), PH_ITEM_FIELD))
       => uResult = StripTrailingSlashes(TryDecodeURIComponent(uOpts.hostUrl)) \o <<"/">>
                    \o WithoutLeadingSlash(uLink)

\* a host URL with a trailing slash and a reference with a leading slash,
\* joined by one slash
C3_Witness ==
  /\ uCalled
  /\ uOpts.urlSchema = <<>>
  /\ uOpts.hostUrl = HostExampleStream
  /\ uLink = RefVideo
  /\ uResult = HostExample \o <<"/", "s", "t", "r", "e", "a", "m">> \o RefVideo

\* C3 as the specification words it: with no schema and no placeholders in
\* hostUrl, the result is the host without trailing slashes, one slash, and
\* the reference without its leading slash, whatever the host URL is.
C3_AnyHostUrl ==
  (uCalled /\ uOpts.urlSchema = <<>> /\ RelativeLink(uLink) /\ uOpts.hostUrl # <<>>
     /\ ~Includes(uOpts.hostUrl, PH_TOKEN) /\ ~Includes(uOpts.hostUrl, PH_EXPIRES)
     /\ ~Includes(uOpts.hostUrl, PH_ITEM_FIELD))
    => uResult = StripTrailingSlashes(uOpts.hostUrl) \o <<"/">> \o WithoutLeadingSlash(uLink)

\* C4: a reference that starts with http:// or https:// is returned
\* unchanged, whatever the configuration.
C4_FullUrlUnchanged ==
  (uCalled /\ (StartsWith(uLink, HTTP) \/ StartsWith(uLink, HTTPS))) => uResult = uLink

\* a full URL with a placeholder in it, under a schema and a secret
C4_Witness ==
  /\ uCalled
  /\ uLink = RefHttp
  /\ uOpts.urlSchema = SchemaReadme
  /\ uOpts.streamSecret = Secret
  /\ uOpts.hostUrl = HostTemplate
  /\ uResult = RefHttp

\* C4 as the specification words it: every reference that starts with a
\* scheme is returned unchanged.
C4_AnySchemeUnchanged == (uCalled /\ HasScheme(uLink)) => uResult = uLink

\* C5: without a secret the returned URL contains neither {{token}} nor
\* {{expires}}, wherever the placeholders come from.
C5_NoPlaceholderWithoutSecret ==
  (uCalled /\ uOpts.streamSecret = <<>> /\ uResult # NULL)
    => ~Includes(uResult, PH_TOKEN) /\ ~Includes(uResult, PH_EXPIRES)

\* C6: for a schema and a relative reference the normalized reference
\* occurs in the result; it ends the result after exactly one slash when the
\* schema has no {{item_field}}, and nothing follows it when {{item_field}}
\* ends the schema.
C6_ItemFieldOrAppend ==
  (uCalled /\ uOpts.urlSchema # <<>> /\ RelativeLink(uLink))
    => /\ Includes(uResult, WithoutLeadingSlash(uLink))
       /\ ~Includes(SchemaWithHost(uOpts), PH_ITEM_FIELD)
            => /\ EndsWith(uResult, <<"/">> \o WithoutLeadingSlash(uLink))
               /\ ~EndsWith(uResult, <<"/", "/">> \o WithoutLeadingSlash(uLink))
       /\ EndsWith(SchemaWithHost(uOpts), PH_ITEM_FIELD)
            => EndsWith(uResult, WithoutLeadingSlash(uLink))

\* the Unix time in seconds, to the nearest second, of the call time plus the
\* configured minutes, 60 when none are configured
C8_Expires ==
  uCallTime[1]
  + (IF uOpts.expiresInMinutes = Undefined THEN 60 ELSE uOpts.expiresInMinutes[1]) * 60
  + (IF uCallTime[2] >= 500 THEN 1 ELSE 0)

\* C8: with a secret and a template that asks for a token or an expiry, the
\* expiry in the URL is the Unix time in seconds (to the nearest second) of
\* the call time plus the configured ttl in minutes, 60 by default, and the
\* token in the URL is the digest of that same value.
C8_ExpiresIsNowPlusTtl ==
  (uCalled /\ uOpts.streamSecret # <<>> /\ RelativeLink(uLink) /\ WantsToken(UrlTemplate(uOpts)))
    => /\ Includes(UrlTemplate(uOpts), PH_EXPIRES)
            => Includes(uResult, NumToString(C8_Expires))
       /\ Includes(UrlTemplate(uOpts), PH_TOKEN)
            => Includes(uResult,
                        HashFor(<<NumToString(C8_Expires), uOpts.streamSecret, IncludeIp(uOpts)>>))

\* a call half a second into a second, with a ttl of five minutes
C8_Witness ==
  /\ uCalled
  /\ uOpts.streamSecret = Secret
  /\ uOpts.urlSchema = SchemaReadme
  /\ uOpts.hostUrl = HostExample
  /\ uOpts.expiresInMinutes = <<5>>
  /\ uCallTime = <<FirstSecond, 500>>
  /\ uLink = RefPlaylist
  /\ Includes(uResult, <<"/">> \o NumToString(FirstSecond + 301) \o <<"/">>)

(***************************************************************************)
(* formatQuality as a state machine: a height and the two labels           *)
(***************************************************************************)

\* the heights an engine reports run up to MaxHeight
MaxHeight == 2400

Heights == {Undefined} \cup {<<h>> : h \in 0..MaxHeight}

UrlParked ==
  /\ uOpts = [hostUrl |-> <<>>, urlSchema |-> <<>>, streamSecret |-> <<>>, includeIp |-> Undefined,
              expiresInMinutes |-> Undefined, apiBaseUrl |-> ApiBase, origin |-> Origin]
  /\ uLink = <<>>
  /\ uNow = <<FirstSecond, 0>>
  /\ uCallTime = <<FirstSecond, 0>>
  /\ uResult = NULL
  /\ uCalled = FALSE

QualityInit ==
  /\ qHeight \in Heights
  /\ qLabel = NULL
  /\ qLabelDash = NULL
  /\ qLabelReplacement = NULL
  /\ qCalled = {}
  /\ UrlParked
  /\ PlayerParked
  /\ RestParked

\* formatQuality(height) of the HLS player
FormatQualityHls ==
  /\ qLabel' = formatQuality(qHeight)
  /\ qCalled' = qCalled \cup {"hls"}
  /\ UNCHANGED <<qHeight, qLabelDash, qLabelReplacement, urlVars, playerVars, restVars>>

\* formatQuality(height) of the DASH player
FormatQualityDash ==
  /\ qLabelDash' = formatQualityDash(qHeight)
  /\ qCalled' = qCalled \cup {"dash"}
  /\ UNCHANGED <<qHeight, qLabel, qLabelReplacement, urlVars, playerVars, restVars>>

\* formatQuality(height) of the replacement player
FormatQualityReplacement ==
  /\ qLabelReplacement' = formatQualityReplacement(qHeight)
  /\ qCalled' = qCalled \cup {"replacement"}
  /\ UNCHANGED <<qHeight, qLabel, qLabelDash, urlVars, playerVars, restVars>>

QualityNext ==
  \/ FormatQualityHls
  \/ FormatQualityDash
  \/ FormatQualityReplacement

SpecQuality == QualityInit /\ [][QualityNext]_vars

(***************************************************************************)
(* Properties of formatQuality                                             *)
(***************************************************************************)

\* the label the thresholds give a height h
C10_Label(h) ==
  IF h >= 2160 THEN <<"4", "K">>
  ELSE IF h >= 1440 THEN <<"1", "4", "4", "0", "p">>
  ELSE IF h >= 1080 THEN <<"1", "0", "8", "0", "p">>
  ELSE IF h >= 720 THEN <<"7", "2", "0", "p">>
  ELSE IF h >= 540 THEN <<"5", "4", "0", "p">>
  ELSE IF h >= 480 THEN <<"4", "8", "0", "p">>
  ELSE IF h >= 360 THEN <<"3", "6", "0", "p">>
  ELSE IF h >= 240 THEN <<"2", "4", "0", "p">>
  ELSE NumToString(h) \o <<"p">>

\* C10: for every height h >= 1 the label of both players is 4K from 2160,
\* 1440p from 1440, 1080p from 1080, 720p from 720, 540p from 540, 480p from
\* 480, 360p from 360, 240p from 240 and {h}p below; for an undefined height
\* and for the height 0 the label is null.
C10_QualityLabel ==
  /\ ("hls" \in qCalled /\ qHeight # Undefined /\ qHeight # <<0>>) => qLabel = C10_Label(qHeight[1])
  /\ ("dash" \in qCalled /\ qHeight # Undefined /\ qHeight # <<0>>)
       => qLabelDash = C10_Label(qHeight[1])
  /\ ("hls" \in qCalled /\ (qHeight = Undefined \/ qHeight = <<0>>)) => qLabel = NULL
  /\ ("dash" \in qCalled /\ (qHeight = Undefined \/ qHeight = <<0>>)) => qLabelDash = NULL

\* both players have labelled the height 540
C10_Witness ==
  /\ qCalled = {"hls", "dash"}
  /\ qHeight = <<540>>
  /\ qLabel = <<"5", "4", "0", "p">>
  /\ qLabelDash = <<"5", "4", "0", "p">>

\* C10 as the specification words it: every height an engine reports,
\* the height 0 included, gets a label from the thresholds.
C10_EveryHeight ==
  /\ ("hls" \in qCalled /\ qHeight # Undefined) => qLabel = C10_Label(qHeight[1])
  /\ ("dash" \in qCalled /\ qHeight # Undefined) => qLabelDash = C10_Label(qHeight[1])
  /\ ("hls" \in qCalled /\ qHeight = Undefined) => qLabel = NULL
  /\ ("dash" \in qCalled /\ qHeight = Undefined) => qLabelDash = NULL

(***************************************************************************)
(* The player component: the field interface, its own player and the       *)
(* player that takes over the host's file preview                          *)
(***************************************************************************)

\* the component's state as one record, so that a handler can call another
State ==
  [isStringField |-> isStringField, isFileModule |-> isFileModule,
   hlsSupported |-> hlsSupported, canPlayNative |-> canPlayNative, mounted |-> mounted,
   propsValue |-> propsValue, fileData |-> fileData, useHls |-> useHls, toggles |-> toggles,
   rendered |-> rendered,
   videoElement |-> videoElement, hostContainer |-> hostContainer, hostVideo |-> hostVideo,
   infoOverlays |-> infoOverlays, toggleControls |-> toggleControls, retryTimer |-> retryTimer,
   replacementQuality |-> replacementQuality,
   replaced |-> replaced, replacementVideoElement |-> replacementVideoElement,
   engines |-> engines, streamUrlOf |-> streamUrlOf, videoSrc |-> videoSrc, tasks |-> tasks]

\* a string a condition takes as true
Truthy(u) == u # NULL /\ u # <<>>

\* the file a file field selects, and the file the host page shows
FileId == <<"f", "1">>
HostFileId == <<"f", "0">>
RefHlsPath == <<"/", "a", "/", "b">> \o M3U8

\* what the file request can answer: nothing (the request failed), the file
\* with a stream link, the file without one
FileAnswers(id) == {<<>>, <<id, RefHlsPath>>, <<id, <<>>>>}

\* fileData.value?.[streamLinkFieldName.value]
FileStreamLink(data) == IF data = <<>> THEN <<>> ELSE data[2]

ASSETS == <<"/", "a", "s", "s", "e", "t", "s", "/">>

AssetUrl(apiBaseUrl, id) ==
  (IF EndsWith(apiBaseUrl, <<"/">>) THEN SubSeq(apiBaseUrl, 1, Len(apiBaseUrl) - 1)
   ELSE apiBaseUrl) \o ASSETS \o id

shouldReplaceDefaultPlayer(s) == s.isFileModule /\ s.isStringField /\ s.propsValue # <<>>

isVideoFile(s) == IF s.isStringField THEN s.propsValue # <<>> ELSE s.fileData # <<>>

streamUrlFromValue(s) ==
  IF s.isStringField /\ s.propsValue # <<>> THEN s.streamUrlOf[s.propsValue]
  ELSE IF FileStreamLink(s.fileData) # <<>>
    THEN s.streamUrlOf[FileStreamLink(s.fileData)]
  ELSE NULL

videoUrl(s) == IF s.fileData = <<>> THEN NULL ELSE AssetUrl(uOpts.apiBaseUrl, s.fileData[1])

mp4Url(s) ==
  IF s.isFileModule /\ s.isStringField /\ shouldReplaceDefaultPlayer(s)
    THEN AssetUrl(uOpts.apiBaseUrl, HostFileId)
  ELSE IF s.isStringField /\ ~shouldReplaceDefaultPlayer(s) THEN NULL
  ELSE IF ~s.isStringField /\ videoUrl(s) # NULL THEN videoUrl(s)
  ELSE NULL

isDashStream_CaseSensitive(url) ==
  /\ Truthy(url)
  /\ \/ EndsWith(url, <<".", "m", "p", "d">>)
     \/ Includes(url, <<"/", "d", "a", "s", "h", "/">>)
     \/ Includes(url, <<"f", "o", "r", "m", "a", "t", "=", "d", "a", "s", "h">>)

isDashStream(url) ==
  /\ Truthy(url)
  /\ LET lowerUrl == ToLowerCase(url)
     IN \/ EndsWith(lowerUrl, <<".", "m", "p", "d">>)
        \/ Includes(lowerUrl, <<"/", "d", "a", "s", "h", "/">>)
        \/ Includes(lowerUrl, <<"f", "o", "r", "m", "a", "t", "=", "d", "a", "s", "h">>)

\* an engine instance: new Hls(...) or dashjs.MediaPlayer().create(), attached
\* to the element el with the source url; ref is the ref it is stored in
\* ("none": in no ref) and held says that the ref still points to it
NewEngine(kind, el, url, ref) ==
  [kind |-> kind, el |-> el, url |-> url, ref |-> ref, held |-> ref # "none",
   destroyed |-> FALSE]

\* ref.value = engine: the ref no longer points to the instance it held before
Store(engs, e) ==
  [i \in 1..Len(engs) |->
     IF e.ref # "none" /\ engs[i].ref = e.ref THEN [engs[i] EXCEPT !.held = FALSE]
     ELSE engs[i]] \o <<e>>

DestroyRef_KeepRef(engs, ref) ==
  [i \in 1..Len(engs) |->
     IF engs[i].ref = ref /\ engs[i].held THEN [engs[i] EXCEPT !.destroyed = TRUE]
     ELSE engs[i]]

\* if (ref.value) { ref.value.destroy(); ref.value = null; }
DestroyRef(engs, ref) ==
  [i \in 1..Len(engs) |->
     IF engs[i].ref = ref /\ engs[i].held
       THEN [engs[i] EXCEPT !.destroyed = TRUE, !.held = FALSE]
     ELSE engs[i]]

SetSrc(s, el, url) == [s EXCEPT !.videoSrc[el] = url]

cleanupHls_Keep(s) == s

cleanupHls(s) == [s EXCEPT !.engines = DestroyRef(@, "hlsInstance")]

\* cleanupDash() as the interface calls it
cleanupDash(s) == [s EXCEPT !.engines = DestroyRef(@, "dashInstance")]

\* fallbackSrc is the source the caller's fallback gives the bound element,
\* NULL when the fallback sets none or when there is no fallback
setupHlsPlayer(s, videoEl, streamUrl, fallbackSrc) ==
  IF Truthy(streamUrl) /\ s.hlsSupported
    THEN [s EXCEPT !.engines =
            Store(@, NewEngine("hls", videoEl, streamUrl,
                               IF videoEl = s.videoElement THEN "hlsInstance" ELSE "none"))]
  ELSE IF Truthy(streamUrl) /\ s.canPlayNative THEN SetSrc(s, videoEl, streamUrl)
  ELSE IF fallbackSrc # NULL THEN SetSrc(s, s.videoElement, fallbackSrc)
  ELSE s

setupVideoPlayer(s) ==
  IF s.videoElement = 0 THEN s
  ELSE IF s.isStringField /\ ~shouldReplaceDefaultPlayer(s)
    THEN LET c == cleanupHls(s)
         IN IF c.useHls
              THEN IF Truthy(streamUrlFromValue(c))
                     THEN setupHlsPlayer(c, c.videoElement, streamUrlFromValue(c), mp4Url(c))
                   ELSE c
            ELSE IF mp4Url(c) # NULL THEN SetSrc(c, c.videoElement, mp4Url(c))
            ELSE c
  ELSE IF s.fileData = <<>> THEN s
  ELSE LET c == cleanupHls(s)
           streamLinkValue == FileStreamLink(c.fileData)
       IN IF streamLinkValue # <<>> /\ Truthy(c.streamUrlOf[streamLinkValue])
            THEN setupHlsPlayer(c, c.videoElement, c.streamUrlOf[streamLinkValue],
                                videoUrl(c))
          ELSE IF videoUrl(c) # NULL THEN SetSrc(c, c.videoElement, videoUrl(c))
          ELSE c

\* the DASH player of the component: it stores the instance only for the bound
\* element
setupDashPlayer(s, videoEl, streamUrl) ==
  IF ~Truthy(streamUrl) THEN s
  ELSE LET c == IF videoEl = s.videoElement
                  THEN [s EXCEPT !.engines = DestroyRef(@, "dashInstance")]
                ELSE s
       IN [c EXCEPT !.engines =
             Store(@, NewEngine("dash", videoEl, streamUrl,
                                IF videoEl = c.videoElement THEN "dashInstance" ELSE "none"))]

\* the engine the takeover player starts on videoEl for a stream URL; dashThrows
\* says that the dash.js set-up in the try block throws before the instance is
\* initialized
startReplacementEngine(s, videoEl, streamUrl, dashThrows) ==
  IF isDashStream(streamUrl)
    THEN IF dashThrows THEN setupDashPlayer(s, videoEl, streamUrl)
         ELSE [s EXCEPT !.engines =
                 Store(@, NewEngine("dash", videoEl, streamUrl, "replacementDashInstance"))]
  ELSE IF s.hlsSupported
    THEN [s EXCEPT !.engines =
            Store(@, NewEngine("hls", videoEl, streamUrl, "replacementHlsInstance"))]
  ELSE setupHlsPlayer(s, videoEl, streamUrl, NULL)

updateReplacementPlayer_NoCleanup(s, dashThrows) ==
  IF s.replacementVideoElement = 0 THEN s
  ELSE IF s.useHls
    THEN startReplacementEngine(s, s.replacementVideoElement, streamUrlFromValue(s), dashThrows)
  ELSE SetSrc(s, s.replacementVideoElement, mp4Url(s))

updateReplacementPlayer(s, dashThrows) ==
  IF s.replacementVideoElement = 0 THEN s
  ELSE LET c == SetSrc([s EXCEPT !.engines = DestroyRef(DestroyRef(@, "replacementHlsInstance"),
                                                        "replacementDashInstance"),
                                 !.replacementQuality = NULL],
                       s.replacementVideoElement, <<>>)
       IN IF c.useHls
            THEN IF Truthy(streamUrlFromValue(c))
                   THEN startReplacementEngine(c, c.replacementVideoElement,
                                               streamUrlFromValue(c), dashThrows)
                 ELSE c
          ELSE IF mp4Url(c) # NULL THEN SetSrc(c, c.replacementVideoElement, mp4Url(c))
          ELSE c

Schedule(s, task) == [s EXCEPT !.tasks = @ \cup {task}]

addInfoOverlayToReplacementPlayer_Always(s) == [s EXCEPT !.infoOverlays = @ + 1]

\* appends an info overlay to the container unless it holds one
addInfoOverlayToReplacementPlayer(s) ==
  IF s.infoOverlays = 0 THEN [s EXCEPT !.infoOverlays = 1] ELSE s

\* appends a toggle control to the container unless it holds one
addToggleButtonToFilePreview(s) ==
  IF s.toggleControls # 0 THEN s ELSE [s EXCEPT !.toggleControls = 1]

\* setTimeout(replaceDefaultVideoPlayer, 100): a timer other than the one
\* that is running; two ids tell them apart
NextRetryTimer(id) == 1 - id

clearSource_Keep(s, el) == s

\* defaultVideo.src = ''; defaultVideo.removeAttribute('src')
clearSource(s, el) == SetSrc(s, el, <<>>)

\* replaceDefaultVideoPlayer() sets a timer; replaceDefaultVideoPlayerBody is
\* what the timer runs.  caller tells the timers of different callers apart.
replaceDefaultVideoPlayer(s, caller) == Schedule(s, <<"replace", caller>>)

replaceDefaultVideoPlayerBody(s, caller, dashThrows) ==
  IF ~s.hostContainer
    THEN replaceDefaultVideoPlayer([s EXCEPT !.retryTimer = NextRetryTimer(@)], caller)
  ELSE IF s.hostVideo = 0 THEN s
  ELSE IF s.hostVideo \in s.replaced THEN updateReplacementPlayer(s, dashThrows)
  ELSE IF ~Truthy(streamUrlFromValue(s))
    THEN IF mp4Url(s) # NULL /\ ~s.useHls
           THEN SetSrc([s EXCEPT !.replacementVideoElement = s.hostVideo,
                                 !.replaced = @ \cup {s.hostVideo}],
                       s.hostVideo, mp4Url(s))
         ELSE s
  ELSE addToggleButtonToFilePreview(addInfoOverlayToReplacementPlayer(
         startReplacementEngine(
           clearSource([s EXCEPT !.replacementVideoElement = s.hostVideo,
                                 !.replaced = @ \cup {s.hostVideo}],
                       s.hostVideo),
           s.hostVideo, streamUrlFromValue(s), dashThrows)))

cleanupReplacementPlayer_KeepMarker(s) ==
  [s EXCEPT !.engines = DestroyRef(DestroyRef(@, "replacementHlsInstance"),
                                   "replacementDashInstance"),
            !.replacementVideoElement = 0,
            !.replacementQuality = NULL]

cleanupReplacementPlayer(s) ==
  [s EXCEPT !.engines = DestroyRef(DestroyRef(@, "replacementHlsInstance"),
                                   "replacementDashInstance"),
            !.replaced = IF s.replacementVideoElement # 0 THEN @ \ {s.replacementVideoElement}
                         ELSE @,
            !.replacementVideoElement = 0,
            !.replacementQuality = NULL]

togglePlaybackFormat(s, dashThrows) ==
  LET t == [s EXCEPT !.useHls = ~@]
  IN IF shouldReplaceDefaultPlayer(t) /\ t.replacementVideoElement # 0
       THEN updateReplacementPlayer(t, dashThrows)
     ELSE IF t.videoElement # 0 THEN setupVideoPlayer(t)
     ELSE t

(***************************************************************************)
(* The handlers of the field interface.  A callback handed to nextTick     *)
(* runs at the end of the step that schedules it, after the page has       *)
(* rendered and before any other event; the callbacks handed to setTimeout *)
(* and to the promise of the file request are tasks that run later, each   *)
(* in one step.  The first attempt of a polling callback is a task too.    *)
(***************************************************************************)

\* a polling callback waits with the number it carries: setupWhenReady of
\* the value watcher with its parameter attempt, checkForVideo with
\* retryCount.count; setupWhenReady of onMounted keeps no count, its task
\* carries the number of runs it has had
TaskWhenReady(attempt) == <<"whenReady", attempt>>
TaskMountReady(runs) == <<"mountReady", runs>>
TaskCheckVideo(count) == <<"checkVideo", count>>

\* the last attempt that schedules another one: attempt < 20 of setupWhenReady,
\* retryCount.count < 10 of checkForVideo
WhenReadyAttempts == 20
CheckVideoAttempts == 10

\* the runs of setupWhenReady of onMounted that a run of the model follows
MaxRuns == 22
TaskLoad(id) == <<"load", id>>
TaskMountLoad(id) == <<"mountLoad", id>>

\* the video elements that are in use in s
UsedElements(s) ==
  {s.rendered, s.videoElement, s.hostVideo, s.replacementVideoElement} \cup s.replaced
    \cup {s.engines[i].el : i \in DOMAIN s.engines}
    \cup {e \in Elements : s.videoSrc[e] # <<>>}

\* a new video element: the first one that is not in use, 0 when there is none
FreshElement(s) ==
  LET free == Elements \ UsedElements(s)
  IN IF free = {} THEN 0 ELSE CHOOSE e \in free : \A f \in free : e <= f

\* the v-if of the <video> in the section of the field
showsVideo(s) ==
  /\ s.mounted = "mounted"
  /\ ~shouldReplaceDefaultPlayer(s)
  /\ IF s.isStringField THEN s.propsValue # <<>> /\ Truthy(streamUrlFromValue(s))
     ELSE s.fileData # <<>> /\ isVideoFile(s)

\* the page renders: the section keeps its <video>, gets a new one, or loses it
render(s) ==
  IF ~showsVideo(s) THEN [s EXCEPT !.rendered = 0]
  ELSE IF s.rendered # 0 THEN s
  ELSE [s EXCEPT !.rendered = FreshElement(s)]

\* watch(videoElement): old is the element the ref held before the handler ran
watchVideoElement(old, s) ==
  IF s.videoElement = old \/ shouldReplaceDefaultPlayer(s) THEN s
  ELSE IF s.videoElement # 0 /\ s.propsValue # <<>>
    THEN IF s.isStringField
           THEN IF Truthy(streamUrlFromValue(s)) THEN setupVideoPlayer(s) ELSE s
         ELSE IF s.fileData # <<>> THEN setupVideoPlayer(s)
         ELSE s
  ELSE s

\* videoElement.value = el; setupVideoPlayer()
bindAndSetup(s, el) ==
  watchVideoElement(s.videoElement, setupVideoPlayer([s EXCEPT !.videoElement = el]))

\* watch(streamUrlFromValue): oldUrl is the stream URL before the change
watchStreamUrl(oldUrl, s) ==
  IF shouldReplaceDefaultPlayer(s) \/ streamUrlFromValue(s) = oldUrl THEN s
  ELSE IF s.isStringField /\ s.videoElement # 0 /\ Truthy(streamUrlFromValue(s))
    THEN setupVideoPlayer(s)
  ELSE s

\* watch(() => props.value), with props.value already newValue in s
watchValue(s, newValue) ==
  IF s.isStringField
    THEN IF shouldReplaceDefaultPlayer(s) THEN replaceDefaultVideoPlayer(s, <<"w">>)
         ELSE IF newValue # <<>> THEN Schedule(cleanupReplacementPlayer(s), TaskWhenReady(0))
         ELSE cleanupHls(cleanupReplacementPlayer(s))
  ELSE IF newValue # <<>> THEN Schedule(s, TaskLoad(newValue))
  ELSE cleanupHls([s EXCEPT !.fileData = <<>>])

onMounted(s) ==
  IF s.isStringField
    THEN IF shouldReplaceDefaultPlayer(s) THEN replaceDefaultVideoPlayer(s, <<"m">>)
         ELSE IF s.propsValue # <<>> THEN Schedule(s, TaskMountReady(0))
         ELSE s
  ELSE IF s.propsValue # <<>> THEN Schedule(s, TaskMountLoad(s.propsValue))
  ELSE s

onUnmounted(s) == cleanupReplacementPlayer(cleanupHls(s))

\* updateValue(null), and the watchers the emitted value then runs
updateValueNull(s) ==
  LET c == cleanupHls([s EXCEPT !.fileData = <<>>])
      n == [c EXCEPT !.propsValue = <<>>]
  IN watchStreamUrl(streamUrlFromValue(c), watchValue(n, <<>>))

\* watch([stringFieldRef, fileFieldRef]), when the section of the field is there
watchSectionRefs(s) ==
  LET ready == IF s.isStringField
                 THEN s.propsValue # <<>> /\ Truthy(streamUrlFromValue(s))
               ELSE s.propsValue # <<>> /\ s.fileData # <<>>
  IN IF shouldReplaceDefaultPlayer(s) THEN s
     ELSE IF s.rendered # 0
       THEN IF ready THEN bindAndSetup(s, s.rendered)
            ELSE watchVideoElement(s.videoElement, [s EXCEPT !.videoElement = s.rendered])
     ELSE IF ready /\ (s.isStringField \/ isVideoFile(s)) THEN Schedule(s, TaskCheckVideo(0))
     ELSE s

(***************************************************************************)
(* The component as a state machine                                        *)
(***************************************************************************)

\* the engine instances a run can create
MaxEngines == 4

RefMpd == HTTPS \o <<"x", "/", "v", "i", "d", "e", "o", ".", "m", "p", "d">>

\* the values the field can hold: stream references, or the id of a file
PlayerValues(stringField) ==
  IF stringField THEN {<<>>, RefHlsPath, RefMpd} ELSE {<<>>, FileId}

\* the stream links of a run: the references of a string field, the stream
\* link of a file
PlayerLinks == (PlayerValues(TRUE) \ {<<>>}) \cup {RefHlsPath}

\* the interface of a string field or of a file field of a collection other
\* than directus_files: it renders its own player
Init ==
  /\ UrlParked
  /\ QualityParked
  /\ RestParked
  /\ isStringField \in BOOLEAN
  /\ isFileModule = FALSE
  /\ hlsSupported \in BOOLEAN
  /\ canPlayNative \in (IF hlsSupported THEN {FALSE} ELSE BOOLEAN)
  /\ mounted = "setup"
  /\ propsValue \in PlayerValues(isStringField)
  /\ fileData = <<>>
  /\ useHls = TRUE
  /\ toggles = 0
  /\ rendered = 0
  /\ videoElement = 0
  /\ hostContainer = FALSE
  /\ hostVideo = 0
  /\ infoOverlays = 0
  /\ toggleControls = 0
  /\ retryTimer = 0
  /\ replacementQuality = <<"null">>
  /\ replaced = {}
  /\ replacementVideoElement = 0
  /\ engines = <<>>
  /\ destroyedOn = {}
  /\ streamUrlOf = [link \in PlayerLinks |-> getStreamUrl(link, uOpts, uNow)]
  /\ videoSrc = [e \in Elements |-> <<>>]
  /\ tasks = {}

\* the instances of engs that were not destroyed, and the elements of the others
Live(engs) == SelectSeq(engs, LAMBDA e : ~e.destroyed)

DestroyedElements(engs) == {engs[i].el : i \in {j \in DOMAIN engs : engs[j].destroyed}}

\* the step that ends in the component state t, once the page has rendered.
\* engines keeps the instances that are not destroyed; destroyedOn records
\* the elements of the destroyed ones.
Apply(t) ==
  /\ Len(Live(t.engines)) <= MaxEngines
  /\ showsVideo(t) => render(t).rendered # 0
  /\ isStringField' = t.isStringField
  /\ isFileModule' = t.isFileModule
  /\ hlsSupported' = t.hlsSupported
  /\ canPlayNative' = t.canPlayNative
  /\ mounted' = t.mounted
  /\ propsValue' = t.propsValue
  /\ fileData' = t.fileData
  /\ useHls' = t.useHls
  /\ toggles' = t.toggles
  /\ rendered' = render(t).rendered
  /\ videoElement' = t.videoElement
  /\ hostContainer' = t.hostContainer
  /\ hostVideo' = t.hostVideo
  /\ infoOverlays' = t.infoOverlays
  /\ toggleControls' = t.toggleControls
  /\ retryTimer' = t.retryTimer
  /\ replacementQuality' = t.replacementQuality
  /\ replaced' = t.replaced
  /\ replacementVideoElement' = t.replacementVideoElement
  /\ engines' = Live(t.engines)
  /\ streamUrlOf' = t.streamUrlOf
  /\ destroyedOn' = destroyedOn \cup DestroyedElements(t.engines)
  /\ videoSrc' = t.videoSrc
  /\ tasks' = t.tasks
  /\ UNCHANGED <<urlVars, qualityVars, restVars>>

\* the state in which the task has left the queue and runs
Taken(task) == [State EXCEPT !.tasks = @ \ {task}]

\* component setup with its immediate value watcher, onMounted, and the
\* watcher of the section refs once the section is mounted
Mount ==
  /\ mounted = "setup"
  /\ Apply(watchSectionRefs(render(onMounted(
       watchValue([State EXCEPT !.mounted = "mounted"], propsValue)))))

\* the form hands the field another value
ValueChanged ==
  /\ mounted = "mounted"
  /\ \E v \in (IF isStringField THEN DOMAIN streamUrlOf \cup {<<>>}
               ELSE PlayerValues(FALSE)) \ {propsValue} :
       Apply(watchStreamUrl(streamUrlFromValue(State),
                            render(watchValue([State EXCEPT !.propsValue = v], v))))

\* the form empties the string field
ValueEmptied ==
  /\ mounted = "mounted"
  /\ isStringField
  /\ propsValue # <<>>
  /\ Apply(watchStreamUrl(streamUrlFromValue(State),
                          render(watchValue([State EXCEPT !.propsValue = <<>>], <<>>))))

\* clearFile() of a file field
ClearValue ==
  /\ mounted = "mounted"
  /\ ~isStringField
  /\ propsValue # <<>>
  /\ Apply(updateValueNull(State))

TogglePlaybackFormat ==
  /\ mounted = "mounted"
  /\ \E dashThrows \in BOOLEAN :
       Apply(togglePlaybackFormat([State EXCEPT !.toggles = 1 - @], dashThrows))

Unmount ==
  /\ mounted = "mounted"
  /\ Apply([onUnmounted(State) EXCEPT !.mounted = "unmounted"])

\* the source the host page gives the <video> of its file preview
HostPreviewSrc == <<"/", "h", "o", "s", "t">>

\* the sources once the host shows the element el in place of old: el comes
\* with the host's source, and an element that was never adopted leaves the
\* page with its source
HostSources(s, old, el) ==
  [e \in Elements |->
     IF e = el THEN HostPreviewSrc
     ELSE IF e = old /\ old \notin s.replaced THEN <<>>
     ELSE s.videoSrc[e]]

\* the host page renders its file preview, with or without a <video>: either
\* a new .file-preview, or the one it showed with another content
HostRendersPreview ==
  /\ isFileModule
  /\ \E el \in {FreshElement(State), 0}, sameContainer \in BOOLEAN :
       /\ sameContainer => hostContainer
       /\ el # hostVideo \/ ~hostContainer
       /\ Apply([State EXCEPT !.hostContainer = TRUE, !.hostVideo = el,
                              !.videoSrc = HostSources(State, hostVideo, el),
                              !.infoOverlays = IF sameContainer THEN @ ELSE 0,
                              !.toggleControls = IF sameContainer THEN @ ELSE 0])

\* a timer of replaceDefaultVideoPlayer fires
RunReplace ==
  \E task \in tasks, dashThrows \in BOOLEAN :
    /\ task[1] = "replace"
    /\ Apply(replaceDefaultVideoPlayerBody(Taken(task), task[2], dashThrows))

\* setupWhenReady(attempt) of the value watcher
setupWhenReady(s, attempt) ==
  IF s.rendered # 0 THEN bindAndSetup(s, s.rendered)
  ELSE IF s.videoElement # 0 THEN setupVideoPlayer(s)
  ELSE IF attempt < WhenReadyAttempts THEN Schedule(s, TaskWhenReady(attempt + 1))
  ELSE s

\* the state of a run that does not follow the counts of the polling loops
Uncounted(s) ==
  [s EXCEPT !.tasks = {IF task[1] \in {"whenReady", "mountReady", "checkVideo"}
                         THEN <<task[1], 0>>
                       ELSE task : task \in @}]

\* a timer of setupWhenReady of the value watcher fires; last: with its last
\* attempt
RunWhenReady ==
  /\ tasks # {}
  /\ \E task \in tasks, last \in BOOLEAN :
       /\ task[1] = "whenReady"
       /\ Apply(Uncounted(setupWhenReady(Taken(task),
                                         IF last THEN WhenReadyAttempts ELSE 0)))

\* the same with the attempt the callback carries
PollWhenReady ==
  /\ tasks # {}
  /\ \E task \in tasks :
       /\ task[1] = "whenReady"
       /\ Apply(setupWhenReady(Taken(task), task[2]))

\* setupWhenReady of onMounted, which has run runs times
setupWhenReadyMounted(s, runs) ==
  IF s.videoElement # 0 /\ Truthy(streamUrlFromValue(s)) THEN setupVideoPlayer(s)
  ELSE Schedule(s, TaskMountReady(runs + 1))

RunMountReady ==
  /\ tasks # {}
  /\ \E task \in tasks :
       /\ task[1] = "mountReady"
       /\ Apply(Uncounted(setupWhenReadyMounted(Taken(task), 0)))

\* the same with the runs counted, up to MaxRuns
PollMountReady ==
  /\ tasks # {}
  /\ \E task \in tasks :
       /\ task[1] = "mountReady"
       /\ task[2] < MaxRuns
       /\ Apply(setupWhenReadyMounted(Taken(task), task[2]))

\* checkForVideo, with retryCount.count = count before the call
checkForVideo(s, count) ==
  IF s.rendered # 0 THEN bindAndSetup(s, s.rendered)
  ELSE IF count + 1 < CheckVideoAttempts THEN Schedule(s, TaskCheckVideo(count + 1))
  ELSE s

\* a timer of checkForVideo fires; last: with its last attempt
RunCheckVideo ==
  /\ tasks # {}
  /\ \E task \in tasks, last \in BOOLEAN :
       /\ task[1] = "checkVideo"
       /\ Apply(Uncounted(checkForVideo(Taken(task),
                                        IF last THEN CheckVideoAttempts - 1 ELSE 0)))

\* the same with the count the callback carries
PollCheckVideo ==
  /\ tasks # {}
  /\ \E task \in tasks :
       /\ task[1] = "checkVideo"
       /\ Apply(checkForVideo(Taken(task), task[2]))

\* the file request of the value watcher answers
RunLoad ==
  \E task \in tasks :
    /\ task[1] = "load"
    /\ \E data \in FileAnswers(task[2]) :
       LET s == render([Taken(task) EXCEPT !.fileData = data])
           b == IF s.videoElement = 0 /\ s.rendered # 0
                  THEN [s EXCEPT !.videoElement = s.rendered]
                ELSE s
       IN Apply(watchVideoElement(s.videoElement,
                                  IF b.videoElement # 0 THEN setupVideoPlayer(b)
                                  ELSE IF isVideoFile(b) THEN Schedule(b, TaskCheckVideo(0))
                                  ELSE b))

\* the file request of onMounted answers
RunMountLoad ==
  \E task \in tasks :
    /\ task[1] = "mountLoad"
    /\ \E data \in FileAnswers(task[2]) :
       LET s == render([Taken(task) EXCEPT !.fileData = data])
       IN Apply(IF s.videoElement # 0 THEN setupVideoPlayer(s) ELSE s)

Next ==
  \/ Mount
  \/ ValueChanged
  \/ ClearValue
  \/ TogglePlaybackFormat
  \/ Unmount
  \/ RunWhenReady
  \/ RunMountReady
  \/ RunCheckVideo
  \/ RunLoad
  \/ RunMountLoad

Spec == Init /\ [][Next]_vars

\* the component with the counts of its polling loops followed, from the
\* mount to the unmount, with the value it was mounted with or none
RetryNext ==
  \/ Mount
  \/ ValueEmptied
  \/ Unmount
  \/ PollWhenReady
  \/ PollMountReady
  \/ PollCheckVideo
  \/ RunLoad

SpecRetry == Init /\ [][RetryNext]_vars

(***************************************************************************)
(* The interface of a string field in the file module: it takes over the   *)
(* video element of the host's file preview                                *)
(***************************************************************************)

RefMp4 == <<"/", "a", "/", "b", ".", "m", "p", "4">>
RefDashUpper == <<"/", "D", "A", "S", "H", "/", "a">>
RefDashQuery == <<"/", "a", "?", "f", "o", "r", "m", "a", "t", "=", "d", "a", "s", "h">>
RefMpdInside == <<"/", "a", ".", "m", "p", "d", "/", "b">>

\* the stream references of a takeover run
FormatValues == {RefHlsPath, RefMpd, RefMp4, RefDashUpper, RefDashQuery, RefMpdInside}

TakeoverInit ==
  /\ UrlParked
  /\ QualityParked
  /\ RestParked
  /\ isStringField = TRUE
  /\ isFileModule = TRUE
  /\ hlsSupported \in BOOLEAN
  /\ canPlayNative \in (IF hlsSupported THEN {FALSE} ELSE BOOLEAN)
  /\ mounted = "setup"
  /\ propsValue \in FormatValues
  /\ fileData = <<>>
  /\ useHls = TRUE
  /\ toggles = 0
  /\ rendered = 0
  /\ videoElement = 0
  /\ hostContainer = FALSE
  /\ hostVideo = 0
  /\ infoOverlays = 0
  /\ toggleControls = 0
  /\ retryTimer = 0
  /\ replacementQuality = <<"null">>
  /\ replaced = {}
  /\ replacementVideoElement = 0
  /\ engines = <<>>
  /\ destroyedOn = {}
  /\ streamUrlOf = [link \in FormatValues |-> getStreamUrl(link, uOpts, uNow)]
  /\ videoSrc = [e \in Elements |-> <<>>]
  /\ tasks = {}

TakeoverNext ==
  \/ Mount
  \/ TogglePlaybackFormat
  \/ Unmount
  \/ HostRendersPreview
  \/ RunReplace

SpecTakeover == TakeoverInit /\ [][TakeoverNext]_vars

(***************************************************************************)
(* C1: one engine instance per bound element                               *)
(***************************************************************************)

\* the engine instances created for the element el and not destroyed
LiveOn(el) == {i \in DOMAIN engines : engines[i].el = el}

\* C1: after any sequence of controller operations (setup, change of the
\* stream reference, format toggle, clearing the value, unmount) every video
\* element has at most one engine instance that was created for it and not
\* destroyed, and that instance is the one the controller still holds: each
\* setupVideoPlayer destroyed the instance of the session before.
C1_OneEnginePerElement ==
  \A el \in Elements :
    /\ Cardinality(LiveOn(el)) <= 1
    /\ \A i \in LiveOn(el) : engines[i].held /\ engines[i].ref = "hlsInstance"

\* a later session runs on an element whose earlier instance was destroyed
C1_Witness ==
  \E el \in Elements :
    /\ el = videoElement
    /\ el \in destroyedOn
    /\ LiveOn(el) # {}

(***************************************************************************)
(* C9: the engine is chosen from the resolved URL                          *)
(***************************************************************************)

\* the references with a DASH marker: the .mpd ending, /dash/ in the path,
\* format=dash in the query, in any letter case
C9_DashValues == {RefMpd, RefDashUpper, RefDashQuery}

\* the live engine instances of the adopted element
C9_AdoptedEngines ==
  {i \in DOMAIN engines : engines[i].el = replacementVideoElement}

HeightOrZero(height) == IF height = Undefined THEN 0 ELSE height[1]

\* [...levels].sort((a, b) => (b.height || 0) - (a.height || 0))[0]: the sort
\* is stable, so it is the first of the levels of the greatest height
TopLevel(levels) ==
  levels[CHOOSE i \in DOMAIN levels :
           /\ \A j \in DOMAIN levels : HeightOrZero(levels[j]) <= HeightOrZero(levels[i])
           /\ \A j \in 1..(i - 1) : HeightOrZero(levels[j]) < HeightOrZero(levels[i])]

\* updateQuality of the HLS player: the new currentQuality.value
hlsUpdateQuality(levels, currentLevel, main, quality) ==
  IF Len(levels) > 0
    THEN IF currentLevel >= 0 /\ currentLevel < Len(levels)
           THEN IF main THEN formatQuality(levels[currentLevel + 1]) ELSE quality
         ELSE IF main THEN formatQuality(TopLevel(levels)) ELSE quality
  ELSE quality

\* currentRep && currentRep.height, for a representation <<height>> or <<>>
HasHeight(r) == r # <<>> /\ HeightOrZero(r[1]) # 0

\* list[index], as a representation; <<>> when the index is undefined (-1) or
\* outside the list
RepAt(list, index) ==
  IF index >= 0 /\ index < Len(list) THEN <<list[index + 1]>> ELSE <<>>

\* updateQuality(representation) of the DASH player: the new
\* currentQuality.value
dashUpdateQuality(representation, apiRep, qualityIndex, list, videoHeight, main, quality) ==
  IF ~main THEN quality
  ELSE IF HasHeight(representation) THEN formatQualityDash(representation[1])
  ELSE LET r1 == IF representation = <<>> THEN apiRep ELSE representation
           r2 == IF r1 = <<>> THEN RepAt(list, qualityIndex) ELSE r1
           r3 == IF r2 = <<>> /\ Len(list) > 0
                   THEN IF RepAt(list, qualityIndex) # <<>> THEN RepAt(list, qualityIndex)
                        ELSE <<list[1]>>
                 ELSE r2
       IN IF ~HasHeight(r3) /\ videoHeight > 0 THEN formatQualityDash(<<videoHeight>>)
          ELSE IF HasHeight(r3) THEN formatQualityDash(r3[1])
          ELSE quality

\* the renditions an engine lists: at most MaxLevels
MaxLevels == 3

RenditionHeights == {Undefined, <<360>>, <<720>>, <<1080>>}

LevelLists == UNION {[1..n -> RenditionHeights] : n \in 0..MaxLevels}

ObserverInit ==
  /\ UrlParked
  /\ QualityParked
  /\ PlayerParked
  /\ SessionParked
  /\ RegistryParked
  /\ EditParked
  /\ oLevels \in LevelLists
  /\ oCurrent \in -1..MaxLevels
  /\ oEventRep \in {<<>>, <<Undefined>>, <<<<720>>>>}
  /\ oApiRep \in {<<>>, <<<<360>>>>}
  /\ oVideoHeight \in {0, 480}
  /\ oMain \in BOOLEAN
  /\ currentQuality = NULL
  /\ oRan = "none"

\* an event of hls.js runs updateQuality
UpdateQualityHls ==
  /\ currentQuality' = hlsUpdateQuality(oLevels, oCurrent, oMain, currentQuality)
  /\ oRan' = "hls"
  /\ UNCHANGED <<oLevels, oCurrent, oEventRep, oApiRep, oVideoHeight, oMain>>
  /\ UNCHANGED <<urlVars, qualityVars, playerVars, sessionVars, registryVars, editVars>>

\* an event of dash.js runs updateQuality
UpdateQualityDash ==
  /\ currentQuality' = dashUpdateQuality(oEventRep, oApiRep, oCurrent, oLevels, oVideoHeight,
                                         oMain, currentQuality)
  /\ oRan' = "dash"
  /\ UNCHANGED <<oLevels, oCurrent, oEventRep, oApiRep, oVideoHeight, oMain>>
  /\ UNCHANGED <<urlVars, qualityVars, playerVars, sessionVars, registryVars, editVars>>

ObserverNext ==
  \/ UpdateQualityHls
  \/ UpdateQualityDash

SpecObserver == ObserverInit /\ [][ObserverNext]_vars

(***************************************************************************)
(* C11: the label when the engine reports no current rendition             *)
(***************************************************************************)

\* the heights of the listed renditions, and the greatest of them
C11_ListedHeights == {oLevels[i][1] : i \in {j \in DOMAIN oLevels : oLevels[j] # Undefined}}

C11_Highest == CHOOSE h \in C11_ListedHeights : \A g \in C11_ListedHeights : g <= h

\* the engine reports no current rendition: no representation comes with the
\* event or from the player, and the level index is outside the list
C11_NoCurrent ==
  /\ oEventRep = <<>>
  /\ oApiRep = <<>>
  /\ oCurrent < 0 \/ oCurrent >= Len(oLevels)

\* C11: when the engine of the session on the bound element reports no current
\* rendition, the quality observer that ran labels the session with the
\* highest listed rendition by height.
C11_HighestWhenNoCurrent ==
  (/\ oRan # "none"
   /\ oMain
   /\ C11_NoCurrent
   /\ C11_ListedHeights # {})
  => currentQuality = C10_Label(C11_Highest)

(***************************************************************************)
(* The detection of a CSP block                                            *)
(***************************************************************************)

KW_CSP ==
  <<"C", "o", "n", "t", "e", "n", "t", " ", "S", "e", "c", "u", "r", "i", "t", "y", " ", "P",
    "o", "l", "i", "c", "y">>
KW_MEDIA_SRC == <<"m", "e", "d", "i", "a", "-", "s", "r", "c">>
KW_BLOB == <<"b", "l", "o", "b", ":">>
KW_VIOLATES ==
  <<"v", "i", "o", "l", "a", "t", "e", "s", " ", "t", "h", "e", " ", "f", "o", "l", "l", "o",
    "w", "i", "n", "g", " ", "C", "o", "n", "t", "e", "n", "t", " ", "S", "e", "c", "u", "r",
    "i", "t", "y", " ", "P", "o", "l", "i", "c", "y", " ", "d", "i", "r", "e", "c", "t", "i",
    "v", "e">>
KW_SAFETY_CHECK ==
  <<"U", "R", "L", " ", "s", "a", "f", "e", "t", "y", " ", "c", "h", "e", "c", "k">>

\* cspKeywords.some(keyword => lowerMessage.includes(keyword.toLowerCase()))
isCspError(errorMessage) ==
  LET lowerMessage == ToLowerCase(errorMessage)
  IN \E keyword \in {KW_CSP, KW_MEDIA_SRC, KW_BLOB, KW_VIOLATES} :
       Includes(lowerMessage, ToLowerCase(keyword))

\* isCspViolation of the console.error interceptor
isCspViolation(message) ==
  LET hasCspKeywords ==
        \/ isCspError(message)
        \/ Includes(message, <<"v", "i", "o", "l", "a", "t", "e", "s", " ", "t", "h", "e", " ",
                               "f", "o", "l", "l", "o", "w", "i", "n", "g", " ">> \o KW_CSP)
        \/ Includes(message, KW_CSP \o <<" ", "d", "i", "r", "e", "c", "t", "i", "v", "e">>)
        \/ Includes(ToLowerCase(message), ToLowerCase(KW_CSP))
      hasBlobOrMedia ==
        \/ Includes(message, KW_BLOB)
        \/ Includes(message, KW_MEDIA_SRC)
        \/ Includes(ToLowerCase(message), <<"m", "e", "d", "i", "a">>)
        \/ Includes(message, <<"M", "e", "d", "i", "a", " ", "l", "o", "a", "d", " ", "r", "e", "j",
                               "e", "c", "t", "e", "d", " ", "b", "y", " ">> \o KW_SAFETY_CHECK)
        \/ Includes(message, <<"M", "E", "D", "I", "A", "_", "E", "L", "E", "M", "E", "N", "T", "_",
                               "E", "R", "R", "O", "R">>)
  IN hasCspKeywords /\ hasBlobOrMedia

\* errorMessageIndicatesCsp of the Hls.Events.ERROR handler
errorMessageIndicatesCsp(errorMessage) ==
  \/ isCspError(errorMessage)
  \/ /\ Includes(errorMessage, <<"b", "l", "o", "b">>)
     /\ Includes(errorMessage, <<"b", "l", "o", "c", "k", "e", "d">>)
     /\ Includes(errorMessage, KW_CSP)

isBlockedSource_AnyCode(error) == error # <<>> /\ Includes(error[2], KW_SAFETY_CHECK)

\* error.code === 4 && errorMessage.includes('URL safety check')
isBlockedSource(error) ==
  error # <<>> /\ error[1] = 4 /\ Includes(error[2], KW_SAFETY_CHECK)

\* the line feed of the error text
LF == <<"LF">>

CSP_TEXT_HEAD ==
  <<"C", "o", "n", "t", "e", "n", "t", " ", "S", "e", "c", "u", "r", "i", "t", "y", " ", "P",
    "o", "l", "i", "c", "y", " ", "(", "C", "S", "P", ")", " ", "i", "s", " ", "b", "l", "o",
    "c", "k", "i", "n", "g", " ">>
CSP_TEXT_TAIL ==
  <<" ", "s", "t", "r", "e", "a", "m", "i", "n", "g", ".", " ", "P", "l", "e", "a", "s", "e",
    " ", "a", "d", "d", " ", "t", "h", "e", " ", "f", "o", "l", "l", "o", "w", "i", "n", "g",
    " ", "e", "n", "v", "i", "r", "o", "n", "m", "e", "n", "t", " ", "v", "a", "r", "i", "a",
    "b", "l", "e", " ", "t", "o", " ", "y", "o", "u", "r", " ", "D", "i", "r", "e", "c", "t",
    "u", "s", " ", "c", "o", "n", "f", "i", "g", "u", "r", "a", "t", "i", "o", "n", ":">>
CSP_DIRECTIVE ==
  <<"C", "O", "N", "T", "E", "N", "T", "_", "S", "E", "C", "U", "R", "I", "T", "Y", "_", "P",
    "O", "L", "I", "C", "Y", "_", "D", "I", "R", "E", "C", "T", "I", "V", "E", "S", "_", "_",
    "M", "E", "D", "I", "A", "_", "S", "R", "C">>
CSP_VALUE ==
  <<"=", "a", "r", "r", "a", "y", ":", "'", "s", "e", "l", "f", "'", ",", " ", "b", "l", "o",
    "b", ":", " ", "d", "a", "t", "a", ":">>

CspErrorMessage_Generic(player) == CSP_TEXT_HEAD \o player \o CSP_TEXT_TAIL

\* errorMessage of setCspError, for the player "HLS" or "DASH"
CspErrorMessage(player) ==
  CSP_TEXT_HEAD \o player \o CSP_TEXT_TAIL \o LF \o LF \o CSP_DIRECTIVE \o CSP_VALUE

\* setCspError(): the new cspError.value, for the value it finds
setCspError(value, player) == IF Truthy(value) THEN value ELSE CspErrorMessage(player)

(***************************************************************************)
(* The signals of a session: what the browser and the engine report, each  *)
(* with its cause                                                          *)
(***************************************************************************)

MSG_SAFETY_CHECK ==
  <<"M", "E", "D", "I", "A", "_", "E", "L", "E", "M", "E", "N", "T", "_", "E", "R", "R", "O",
    "R", ":", " ", "M", "e", "d", "i", "a", " ", "l", "o", "a", "d", " ", "r", "e", "j", "e",
    "c", "t", "e", "d", " ", "b", "y", " ", "U", "R", "L", " ", "s", "a", "f", "e", "t", "y",
    " ", "c", "h", "e", "c", "k">>
MSG_FORMAT ==
  <<"M", "E", "D", "I", "A", "_", "E", "L", "E", "M", "E", "N", "T", "_", "E", "R", "R", "O",
    "R", ":", " ", "F", "o", "r", "m", "a", "t", " ", "e", "r", "r", "o", "r">>
MSG_DEMUXER ==
  <<"P", "I", "P", "E", "L", "I", "N", "E", "_", "E", "R", "R", "O", "R", "_", "R", "E", "A",
    "D", ":", " ", "F", "F", "m", "p", "e", "g", "D", "e", "m", "u", "x", "e", "r", ":", " ",
    "d", "a", "t", "a", " ", "s", "o", "u", "r", "c", "e", " ", "e", "r", "r", "o", "r">>
MSG_HTTP_404 ==
  <<"H", "T", "T", "P", " ", "E", "r", "r", "o", "r", " ", "4", "0", "4", " ", "N", "o", "t",
    " ", "F", "o", "u", "n", "d">>
MSG_BLOB_404 ==
  <<"F", "a", "i", "l", "e", "d", " ", "t", "o", " ", "l", "o", "a", "d", " ", "b", "l", "o",
    "b", ":", "h", "t", "t", "p", "s", ":", "/", "/", "d", "i", "r", "e", "c", "t", "u", "s",
    ".", "l", "o", "c", "a", "l", "/", "4", "2", ":", " ", "4", "0", "4", " ", "(", "N", "o",
    "t", " ", "F", "o", "u", "n", "d", ")">>
MSG_NO_EXTM3U ==
  <<"n", "o", " ", "E", "X", "T", "M", "3", "U", " ", "d", "e", "l", "i", "m", "i", "t", "e",
    "r">>
MSG_CODECS ==
  <<"n", "o", " ", "l", "e", "v", "e", "l", " ", "w", "i", "t", "h", " ", "c", "o", "m", "p",
    "a", "t", "i", "b", "l", "e", " ", "c", "o", "d", "e", "c", "s", " ", "f", "o", "u", "n",
    "d", " ", "i", "n", " ", "m", "a", "n", "i", "f", "e", "s", "t">>
MSG_REFUSED ==
  <<"R", "e", "f", "u", "s", "e", "d", " ", "t", "o", " ", "l", "o", "a", "d", " ", "m", "e",
    "d", "i", "a", " ", "f", "r", "o", "m", " ", "'", "b", "l", "o", "b", ":", "h", "t", "t",
    "p", "s", ":", "/", "/", "d", "i", "r", "e", "c", "t", "u", "s", ".", "l", "o", "c", "a",
    "l", "/", "4", "2", "'", " ", "b", "e", "c", "a", "u", "s", "e", " ", "i", "t", " ", "v",
    "i", "o", "l", "a", "t", "e", "s", " ", "t", "h", "e", " ", "f", "o", "l", "l", "o", "w",
    "i", "n", "g", " ", "C", "o", "n", "t", "e", "n", "t", " ", "S", "e", "c", "u", "r", "i",
    "t", "y", " ", "P", "o", "l", "i", "c", "y", " ", "d", "i", "r", "e", "c", "t", "i", "v",
    "e", ":", " ", "m", "e", "d", "i", "a", "-", "s", "r", "c", " ", "'", "s", "e", "l", "f",
    "'">>

\* videoEl.error as <<code, message, cause>>: code 4 is
\* MEDIA_ERR_SRC_NOT_SUPPORTED, code 2 MEDIA_ERR_NETWORK
MediaErrors ==
  {<<4, MSG_SAFETY_CHECK, "csp">>, <<4, MSG_FORMAT, "format">>, <<2, MSG_DEMUXER, "network">>,
   <<2, MSG_SAFETY_CHECK, "network">>}

\* the data of Hls.Events.ERROR as <<fatal, message, cause>>
EngineErrors ==
  {<<TRUE, MSG_HTTP_404, "network">>, <<TRUE, MSG_BLOB_404, "network">>,
   <<TRUE, MSG_NO_EXTM3U, "manifest">>, <<TRUE, MSG_CODECS, "format">>,
   <<TRUE, MSG_REFUSED, "csp">>, <<FALSE, MSG_REFUSED, "csp">>}

\* the text of a console.error call as <<message, cause>>
ConsoleErrors ==
  {<<MSG_REFUSED, "csp">>, <<MSG_BLOB_404, "network">>, <<MSG_HTTP_404, "network">>,
   <<MSG_FORMAT, "format">>}

(***************************************************************************)
(* A player session on the bound element as a state machine                *)
(***************************************************************************)

\* the play events of a session
MaxPlays == 2

\* autoStartLoad of the Hls configuration
AutoStartLoad == TRUE

\* the branch setupHlsPlayer takes for a stream URL
HlsBranch_NoFallback(supported, native) == IF supported THEN "engine" ELSE "native"

HlsBranch(supported, native) ==
  IF supported THEN "engine" ELSE IF native THEN "native" ELSE "fallback"

\* the src after the fallback of setupVideoPlayer ran
FallbackSrc(src, known) == IF known THEN "progressive" ELSE src

\* the src after hls.destroy() detached the media: the blob URL of the
\* engine goes, a src the controller set stays
DetachedSrc(src) == IF src = "blob" THEN "none" ELSE src

\* the checkForCspError timers: no cleanup clears them, so the timers of a
\* session that was torn down or replaced stay pending as stale ones
StaleTimers == {"hlsStale", "dashStale"}

StaleName(timer) == IF timer = "hls" THEN "hlsStale" ELSE IF timer = "dash" THEN "dashStale" ELSE timer

\* the pending timers once the session of the player ended
Outlived(timers, player) == {IF timer = player THEN StaleName(timer) ELSE timer : timer \in timers}

\* the player whose setup armed the timer
TimerPlayer(timer) == IF timer \in {"hls", "hlsStale"} THEN "hls" ELSE "dash"

SessionInit ==
  /\ UrlParked
  /\ QualityParked
  /\ ComponentParked
  /\ ObserverParked
  /\ RegistryParked
  /\ EditParked
  /\ hlsSupported \in BOOLEAN
  /\ canPlayNative \in BOOLEAN
  /\ progressiveKnown \in BOOLEAN
  /\ hlsInstance = FALSE
  /\ dashInstance = FALSE
  /\ cspError = NULL
  /\ dashCspError = NULL
  /\ mediaError = <<>>
  /\ errorListeners = {}
  /\ cspTimers = {}
  /\ cspCallback = TRUE
  /\ playListener = FALSE
  /\ manifestParsed = FALSE
  /\ loading = FALSE
  /\ startLoads = 0
  /\ plays = 0
  /\ elementSrc = "none"
  /\ fallbacks = 0
  /\ created = 0
  /\ cspCause = "none"
  /\ fatalCause = "none"

SessionOthers ==
  UNCHANGED <<urlVars, qualityVars, playerVars, registryVars, editVars, oLevels, oCurrent, oEventRep,
              oApiRep, oVideoHeight, oMain, oRan, progressiveKnown>>

\* cleanupHls() for the bound element: what it leaves of the session
CleanupHlsEffects ==
  /\ currentQuality' = NULL
  /\ manifestParsed' = FALSE
  /\ loading' = FALSE
  /\ startLoads' = 0
  /\ plays' = 0
  /\ cspCallback' = FALSE
  /\ cspCause' = "none"
  /\ fatalCause' = "none"

\* cleanupHls() on unmount or when the value is cleared
CleanupHls ==
  /\ hlsInstance \/ cspCallback \/ cspError # NULL
  /\ CleanupHlsEffects
  /\ hlsInstance' = FALSE
  /\ playListener' = FALSE
  /\ cspError' = NULL
  /\ elementSrc' = DetachedSrc(elementSrc)
  /\ cspTimers' = Outlived(cspTimers, "hls")
  /\ UNCHANGED <<dashInstance, dashCspError, mediaError, errorListeners, fallbacks, created>>
  /\ SessionOthers

\* setupVideoPlayer() with a stream URL: cleanupHls(), then setupHlsPlayer
SetupHlsSession ==
  /\ CleanupHlsEffects
  /\ cspError' = NULL
  /\ errorListeners' = errorListeners \cup {"hls"}
  /\ cspTimers' = Outlived(cspTimers, "hls") \cup {"hls"}
  /\ LET branch == HlsBranch(hlsSupported, canPlayNative)
     IN /\ hlsInstance' = (branch = "engine")
        /\ playListener' = (branch = "engine")
        /\ created' = IF branch = "engine" THEN 1 ELSE 0
        /\ fallbacks' = IF branch = "fallback" THEN 1 ELSE 0
        /\ elementSrc' = IF branch = "native" THEN "stream"
                         ELSE IF branch = "fallback"
                           THEN FallbackSrc(DetachedSrc(elementSrc), progressiveKnown)
                         ELSE "blob"
  /\ UNCHANGED <<dashInstance, dashCspError, mediaError>>
  /\ SessionOthers

\* setupDashPlayer on the bound element with a stream URL; thrown tells where
\* the try block throws: "no", in "create" or in "initialize"
SetupDashSession ==
  \E thrown \in {"no", "create", "initialize"} :
    /\ dashCspError' = NULL
    /\ dashInstance' = (thrown # "create")
    /\ errorListeners' = IF thrown = "create" THEN errorListeners ELSE errorListeners \cup {"dash"}
    /\ cspTimers' = IF thrown = "create" THEN cspTimers
                    ELSE Outlived(cspTimers, "dash") \cup {"dash"}
    /\ elementSrc' = IF thrown = "no" THEN elementSrc
                     ELSE FallbackSrc(elementSrc, progressiveKnown)
    /\ UNCHANGED <<hlsInstance, cspError, mediaError, cspCallback, playListener, manifestParsed,
                   loading, startLoads, plays, fallbacks, created, cspCause,
                   fatalCause, currentQuality>>
    /\ SessionOthers

\* cleanupDash() as the interface calls it, without an element: eventCleanups
\* is not consulted, and undefined is not videoElement.value, so the listeners
\* and cspError of the DASH player stay
CleanupDashEffects ==
  /\ dashInstance' = FALSE
  /\ UNCHANGED <<dashCspError, errorListeners>>

CleanupDash ==
  /\ dashInstance
  /\ CleanupDashEffects
  /\ currentQuality' = NULL
  /\ cspTimers' = Outlived(cspTimers, "dash")
  /\ UNCHANGED <<hlsInstance, cspError, mediaError, cspCallback, playListener,
                 manifestParsed, loading, startLoads, plays, elementSrc, fallbacks, created,
                 cspCause, fatalCause>>
  /\ SessionOthers

\* the interface tears the players down: cleanupHls(); cleanupDash()
Teardown ==
  /\ hlsInstance \/ dashInstance \/ cspCallback \/ cspError # NULL
  /\ CleanupHlsEffects
  /\ hlsInstance' = FALSE
  /\ playListener' = FALSE
  /\ cspError' = NULL
  /\ elementSrc' = DetachedSrc(elementSrc)
  /\ CleanupDashEffects
  /\ cspTimers' = Outlived(Outlived(cspTimers, "hls"), "dash")
  /\ UNCHANGED <<mediaError, fallbacks, created>>
  /\ SessionOthers

\* the signals each check takes for a CSP block
BlockedSources == {error \in MediaErrors : isBlockedSource(error)}
CspEngineErrors == {error \in EngineErrors : errorMessageIndicatesCsp(error[2])}
CspConsoleErrors == {error \in ConsoleErrors : isCspViolation(error[1])}

\* the HLS player calls setCspError() on a signal of the given cause
HlsSetsCspError(cause) ==
  /\ cspError' = setCspError(cspError, <<"H", "L", "S">>)
  /\ cspCause' = IF cspError' = cspError THEN cspCause ELSE cause

HlsKeepsCspError == UNCHANGED <<cspError, cspCause>>

\* the element fires an error event: handleVideoError of both players
MediaErrorEvent ==
  \E error \in MediaErrors :
    /\ mediaError' = error
    /\ IF "hls" \in errorListeners /\ error \in BlockedSources /\ hlsInstance
         THEN HlsSetsCspError(error[3])
       ELSE HlsKeepsCspError
    /\ dashCspError' = IF "dash" \in errorListeners /\ error \in BlockedSources /\ dashInstance
                         THEN setCspError(dashCspError, <<"D", "A", "S", "H">>)
                       ELSE dashCspError
    /\ UNCHANGED <<hlsInstance, dashInstance, errorListeners, cspTimers, cspCallback, playListener,
                   manifestParsed, loading, startLoads, plays, elementSrc, fallbacks, created,
                   fatalCause, currentQuality>>
    /\ SessionOthers

\* a checkForCspError timer fires, two seconds after its setup
checkForCspError(timer) ==
    /\ cspTimers' = cspTimers \ {timer}
    /\ IF TimerPlayer(timer) = "hls" /\ hlsInstance /\ mediaError \in BlockedSources
         THEN HlsSetsCspError(mediaError[3])
       ELSE HlsKeepsCspError
    /\ dashCspError' = IF TimerPlayer(timer) = "dash" /\ dashInstance
                            /\ mediaError \in BlockedSources
                         THEN setCspError(dashCspError, <<"D", "A", "S", "H">>)
                       ELSE dashCspError
    /\ UNCHANGED <<hlsInstance, dashInstance, mediaError, errorListeners, cspCallback,
                   playListener, manifestParsed, loading, startLoads, plays, elementSrc, fallbacks,
                   created, fatalCause, currentQuality>>
    /\ SessionOthers

RunCspTimer ==
  /\ cspTimers # {}
  /\ \E timer \in cspTimers : checkForCspError(timer)

\* the timer of a session that is no longer the current one fires
RunStaleCspTimer ==
  /\ cspTimers \cap StaleTimers # {}
  /\ \E timer \in cspTimers \cap StaleTimers : checkForCspError(timer)

\* loadedmetadata: the listeners clear the pending timers
LoadedMetadata ==
  /\ cspTimers # {}
  /\ cspTimers' = {}
  /\ UNCHANGED <<hlsInstance, dashInstance, cspError, dashCspError, mediaError, errorListeners,
                 cspCallback, playListener, manifestParsed, loading, startLoads, plays, elementSrc,
                 fallbacks, created, cspCause, fatalCause, currentQuality>>
  /\ SessionOthers

\* Hls.Events.ERROR of the engine of the session; a fatal error ends its loading
EngineError ==
  \E error \in EngineErrors :
    /\ hlsInstance
    /\ fatalCause = "none"
    /\ IF error[1] /\ error \in CspEngineErrors THEN HlsSetsCspError(error[3])
       ELSE HlsKeepsCspError
    /\ fatalCause' = IF error[1] THEN error[3] ELSE fatalCause
    /\ loading' = IF error[1] THEN FALSE ELSE loading
    /\ UNCHANGED <<hlsInstance, dashInstance, dashCspError, mediaError, errorListeners, cspTimers,
                   cspCallback, playListener, manifestParsed, startLoads, plays, elementSrc,
                   fallbacks, created, currentQuality>>
    /\ SessionOthers

\* some script calls console.error: the interceptor runs the registered callbacks
ConsoleError ==
  \E error \in ConsoleErrors :
    /\ IF cspCallback /\ error \in CspConsoleErrors THEN HlsSetsCspError(error[2])
       ELSE HlsKeepsCspError
    /\ UNCHANGED <<hlsInstance, dashInstance, dashCspError, mediaError, errorListeners, cspTimers,
                   cspCallback, playListener, manifestParsed, loading, startLoads, plays,
                   elementSrc, fallbacks, created, fatalCause, currentQuality>>
    /\ SessionOthers

\* blockedURI values of a securitypolicyviolation event: a blob URL in full,
\* a blob resource reported by its scheme, a URL of the network with and
\* without the text "blob:" in it, and none
URI_BLOB == <<"b", "l", "o", "b", ":", "h", "/", "1">>
URI_BLOB_SCHEME == <<"b", "l", "o", "b">>
URI_HTTP == <<"h", "/", "a">>
URI_HTTP_BLOB_QUERY == <<"h", "/", "a", "?", "b", "l", "o", "b", ":", "1">>

BlockedURIs == {URI_BLOB, URI_BLOB_SCHEME, URI_HTTP, URI_HTTP_BLOB_QUERY, <<>>}

ViolatedDirectives == {"media-src", "default-src", "script-src", "img-src"}

\* the securitypolicyviolation events of the window, as
\* <<violatedDirective, blockedURI>>
PolicyViolations == ViolatedDirectives \X BlockedURIs

\* cspViolationListener calls setCspError() for the event
cspViolationListener(event) ==
  /\ event[1] = "media-src" \/ event[1] = "default-src"
  /\ event[2] # <<>>
  /\ StartsWith(event[2], KW_BLOB) \/ Includes(event[2], KW_BLOB)

CspViolations == {event \in PolicyViolations : cspViolationListener(event)}

\* the events a session of the bound element sees
SessionViolations ==
  {<<"media-src", URI_BLOB>>, <<"default-src", URI_BLOB>>, <<"media-src", URI_HTTP>>,
   <<"script-src", URI_BLOB>>}

\* cspViolationListener; cleanupHls removes it together with the callback
securityPolicyViolation(event) ==
    /\ IF cspCallback /\ event \in CspViolations
         THEN HlsSetsCspError("csp")
       ELSE HlsKeepsCspError
    /\ UNCHANGED <<hlsInstance, dashInstance, dashCspError, mediaError, errorListeners, cspTimers,
                   cspCallback, playListener, manifestParsed, loading, startLoads, plays,
                   elementSrc, fallbacks, created, fatalCause, currentQuality>>
    /\ SessionOthers

PolicyViolation ==
  /\ SessionViolations # {}
  /\ \E event \in SessionViolations : securityPolicyViolation(event)

\* MANIFEST_PARSED: with autoStartLoad the engine starts to load by itself
ManifestParsed ==
  /\ hlsInstance
  /\ ~manifestParsed
  /\ fatalCause = "none"
  /\ manifestParsed' = TRUE
  /\ loading' = (loading \/ AutoStartLoad)
  /\ UNCHANGED <<hlsInstance, dashInstance, cspError, dashCspError, mediaError, errorListeners,
                 cspTimers, cspCallback, playListener, startLoads, plays, elementSrc, fallbacks,
                 created, cspCause, fatalCause, currentQuality>>
  /\ SessionOthers

\* the element fires play: onPlayHandler calls startLoad() and removes itself
Play ==
  /\ plays < MaxPlays
  /\ plays' = plays + 1
  /\ startLoads' = IF playListener THEN startLoads + 1 ELSE startLoads
  /\ loading' = (loading \/ playListener)
  /\ playListener' = FALSE
  /\ UNCHANGED <<hlsInstance, dashInstance, cspError, dashCspError, mediaError, errorListeners,
                 cspTimers, cspCallback, manifestParsed, elementSrc, fallbacks, created,
                 cspCause, fatalCause, currentQuality>>
  /\ SessionOthers

SessionNext ==
  \/ SetupHlsSession
  \/ CleanupHls
  \/ SetupDashSession
  \/ CleanupDash
  \/ Teardown
  \/ PolicyViolation
  \/ MediaErrorEvent
  \/ RunCspTimer
  \/ LoadedMetadata
  \/ EngineError
  \/ ConsoleError
  \/ ManifestParsed
  \/ Play

SpecSession == SessionInit /\ [][SessionNext]_vars

(***************************************************************************)
(* Claims about the signals of a session, under SpecSession                *)
(***************************************************************************)

\* C12: while an engine session is live on the bound element, an element
\* error of code 4 whose message holds the block phrase sets the CSP error of
\* that player, and an element error of any other code leaves both CSP errors
\* as they were, whatever its message
C12_BlockedSourceSetsCspError ==
  [][mediaError' # mediaError =>
       LET code == mediaError'[1]
           phrase == Includes(mediaError'[2], KW_SAFETY_CHECK)
       IN /\ (code = 4 /\ phrase /\ hlsInstance) => cspError' # NULL
          /\ (code = 4 /\ phrase /\ dashInstance) => dashCspError' # NULL
          /\ code # 4 => (cspError' = cspError /\ dashCspError' = dashCspError)]_vars

\* an element error of code 4 with the block phrase has set the CSP error of
\* the live HLS session
C12_Witness ==
  /\ hlsInstance
  /\ mediaError = <<4, MSG_SAFETY_CHECK, "csp">>
  /\ cspError = CspErrorMessage(<<"H", "L", "S">>)
  /\ cspCause = "csp"

\* C13: cspError is set only by a signal that stems from a security-policy
\* block: no fatal engine error, console error, element error or delayed check
\* whose cause is a network failure or an unsupported format sets it
C13_OnlyCspSignals == cspError # NULL => cspCause = "csp"

\* C14: in every state the CSP error of either player is absent or the fixed
\* text that names CONTENT_SECURITY_POLICY_DIRECTIVES__MEDIA_SRC, and once it
\* is set a further CSP signal of the session leaves it as it is
C14_FixedRemediationText ==
  /\ [](/\ cspError \in {NULL, CspErrorMessage(<<"H", "L", "S">>)}
        /\ dashCspError \in {NULL, CspErrorMessage(<<"D", "A", "S", "H">>)}
        /\ cspError # NULL => Includes(cspError, CSP_DIRECTIVE)
        /\ dashCspError # NULL => Includes(dashCspError, CSP_DIRECTIVE))
  /\ [][(cspError # NULL /\ cspError' # NULL) =>
          (cspError' = cspError /\ cspCause' = cspCause)]_vars
  /\ [][(dashCspError # NULL /\ dashCspError' # NULL) => dashCspError' = dashCspError]_vars

\* a second CSP signal reached the session whose CSP error the console
\* interceptor had set: the text is the one of the first signal
C14_Witness ==
  /\ hlsInstance
  /\ cspError = CspErrorMessage(<<"H", "L", "S">>)
  /\ cspCause = "network"
  /\ mediaError = <<4, MSG_SAFETY_CHECK, "csp">>

\* C15: when the engine of a live session has reported a fatal network,
\* manifest or format error that is no CSP block and a progressive URL is
\* known, the element plays the progressive URL
C15_FatalErrorFallsBack ==
  (hlsInstance /\ fatalCause \in {"network", "manifest", "format"} /\ progressiveKnown)
    => elementSrc = "progressive"

\* C16: when neither the HLS engine nor native HLS playback is available,
\* setupHlsPlayer creates no engine and calls the fallback once, and the
\* element then has the progressive URL as its source when one is known and
\* no source otherwise
C16_UnsupportedFallsBack ==
  ("hls" \in errorListeners /\ ~hlsSupported /\ ~canPlayNative) =>
    /\ created = 0
    /\ ~hlsInstance
    /\ fallbacks = 1
    /\ elementSrc = IF progressiveKnown THEN "progressive" ELSE "none"

\* setupHlsPlayer ran without engine and without native playback, and the
\* fallback gave the element the progressive URL
C16_Witness ==
  /\ "hls" \in errorListeners
  /\ ~hlsSupported
  /\ ~canPlayNative
  /\ progressiveKnown
  /\ fallbacks = 1
  /\ elementSrc = "progressive"

\* C17: between the start of an HLS session and the first play event on its
\* element the engine does not load, and a play event after the first does
\* not start the loading again
C17_LazyLoad ==
  /\ (hlsInstance /\ plays = 0) => ~loading
  /\ startLoads <= 1

(***************************************************************************)
(* Claims about the takeover of the host's video, under SpecTakeover       *)
(***************************************************************************)

\* C18: adoption is idempotent: however many replaceDefaultVideoPlayer calls
\* ran, also with the timers of mount and of the value watcher pending
\* together, the .file-preview holds at most one info overlay and one toggle
\* control, and exactly one of each while its video carries the marker
C18_AdoptionIdempotent ==
  /\ infoOverlays <= 1
  /\ toggleControls <= 1
  /\ (hostContainer /\ hostVideo # 0 /\ hostVideo \in replaced) =>
       (infoOverlays = 1 /\ toggleControls = 1)

\* the body ran a second time on a .file-preview that held the overlay of an
\* earlier adoption: its second video carries the marker
C18_Witness ==
  /\ hostVideo \in replaced
  /\ hostVideo # 0
  /\ destroyedOn # {}
  /\ hostVideo \notin destroyedOn
  /\ infoOverlays = 1
  /\ toggleControls = 1

\* the live engine instances on the adopted element after the step, and
\* those of them the refs of the takeover player hold
C19_EnginesAfter == {i \in DOMAIN engines' : engines'[i].el = replacementVideoElement'}
C19_HeldAfter ==
  {i \in C19_EnginesAfter :
     engines'[i].held /\ engines'[i].ref \in {"replacementHlsInstance", "replacementDashInstance"}}

\* a step of the switch-format action on an adopted element
C19_ToggleStep ==
  /\ useHls' # useHls
  /\ replacementVideoElement # 0
  /\ replacementVideoElement' = replacementVideoElement

AdoptionInit ==
  /\ TakeoverInit
  /\ hlsSupported
  /\ propsValue = RefHlsPath

\* a timer of replaceDefaultVideoPlayer is pending
RetryPending == \E task \in tasks : task[1] = "replace"

\* what RunReplace does while the host shows no .file-preview: the timer
\* that fired is replaced by a new one
RetryFires ==
  /\ ~hostContainer
  /\ RetryPending
  /\ retryTimer' = NextRetryTimer(retryTimer)
  /\ UNCHANGED <<isStringField, isFileModule, hlsSupported, canPlayNative, mounted, propsValue,
                 fileData, useHls, toggles, rendered, videoElement, hostContainer, hostVideo,
                 infoOverlays, toggleControls, replacementQuality, replaced,
                 replacementVideoElement, engines, destroyedOn, streamUrlOf, videoSrc, tasks>>
  /\ UNCHANGED <<urlVars, qualityVars, restVars>>

SpecAdoption == AdoptionInit /\ [][TakeoverNext]_vars /\ WF_vars(RetryFires)

\* C20: when the host's preview container never appears, the adoption
\* attempts stop: from some point on no retry timer is pending
C20_RetriesStop == ([]~hostContainer) => <>[]~RetryPending

\* C21: in takeover mode at most one engine instance that was created for
\* an element is undestroyed, whatever adoptions, toggles and cleanups ran
C21_OneEnginePerAdoptedElement ==
  \A el \in Elements : Cardinality(LiveOn(el)) <= 1

(***************************************************************************)
(* Claims about the teardown of a session, under SpecSession               *)
(***************************************************************************)

\* C22: when a session on the bound element is torn down, none of the
\* listeners it installed on the element remains registered
C22_TeardownRemovesListeners ==
  [][/\ (hlsInstance /\ ~hlsInstance') => ("hls" \notin errorListeners' /\ ~playListener')
     /\ (dashInstance /\ ~dashInstance') => "dash" \notin errorListeners']_vars

\* cspError as the interface exposes it: hlsCspError.value || dashCspError.value
ExposedCspError == IF Truthy(cspError) THEN cspError ELSE dashCspError

\* C23: after the interface tore the players down, the engine handles are
\* null and the exposed quality label and the exposed cspError are absent
C23_TeardownClearsState ==
  [][Teardown =>
       /\ ~hlsInstance'
       /\ ~dashInstance'
       /\ currentQuality' = NULL
       /\ ExposedCspError' = NULL]_vars

(***************************************************************************)
(* Disposal as a state machine: the three cleanup functions applied, in    *)
(* any order and any number of times, to players that hold engines or not  *)
(***************************************************************************)

\* the engines of a player at the start of a disposal
MaxDisposeEngines == 2

PlayerRefs ==
  {"hlsInstance", "dashInstance", "replacementHlsInstance", "replacementDashInstance"}

RefKind(ref) ==
  IF ref \in {"hlsInstance", "replacementHlsInstance"} THEN "hls" ELSE "dash"

DisposeEngines ==
  {[kind |-> RefKind(ref), el |-> el, url |-> RefHlsPath, ref |-> ref, held |-> held,
    destroyed |-> FALSE] : ref \in PlayerRefs, el \in Elements, held \in BOOLEAN}
  \cup {[kind |-> kind, el |-> el, url |-> RefHlsPath, ref |-> "none", held |-> FALSE,
         destroyed |-> FALSE] : kind \in {"hls", "dash"}, el \in Elements}

\* a ref points to one instance
OneHeldPerRef(engs) ==
  \A i, j \in DOMAIN engs : (engs[i].held /\ engs[j].held /\ engs[i].ref = engs[j].ref) => i = j

\* the instances a cleanup of these refs would call destroy() on
DestroyCalls(engs, refs) == {i \in DOMAIN engs : engs[i].ref \in refs /\ engs[i].held}

\* a label the quality callbacks of a takeover engine leave
LABEL_720P == <<"7", "2", "0", "p">>

DisposeInit ==
  /\ UrlParked
  /\ QualityParked
  /\ RestParked
  /\ BrowserParked
  /\ isStringField = TRUE
  /\ isFileModule = TRUE
  /\ mounted = "mounted"
  /\ propsValue = RefHlsPath
  /\ fileData = <<>>
  /\ useHls = TRUE
  /\ toggles = 0
  /\ rendered = 0
  /\ videoElement = 0
  /\ hostContainer = TRUE
  /\ infoOverlays = 0
  /\ toggleControls = 0
  /\ retryTimer = 0
  /\ replacementVideoElement \in {0} \cup Elements
  /\ replaced \in {r \in SUBSET Elements : replacementVideoElement # 0 =>
                                              replacementVideoElement \in r}
  /\ engines \in {engs \in UNION {[1..n -> DisposeEngines] : n \in 0..MaxDisposeEngines} :
                    OneHeldPerRef(engs)}
  /\ hostVideo \in {0, replacementVideoElement}
  /\ replacementQuality \in
       (IF DestroyCalls(engines, {"replacementHlsInstance", "replacementDashInstance"}) # {}
          THEN {NULL, LABEL_720P}
        ELSE {NULL})
  /\ destroyedOn = {}
  /\ streamUrlOf = [link \in {RefHlsPath} |-> link]
  /\ videoSrc = [e \in Elements |-> <<>>]
  /\ tasks \in {{}, {<<"replace", <<"m">>>>}}

\* a cleanup runs and nothing else of the component
Dispose(t) ==
  /\ engines' = Live(t.engines)
  /\ destroyedOn' = destroyedOn \cup DestroyedElements(t.engines)
  /\ replaced' = t.replaced
  /\ replacementVideoElement' = t.replacementVideoElement
  /\ replacementQuality' = t.replacementQuality
  /\ UNCHANGED <<isStringField, isFileModule, hlsSupported, canPlayNative, mounted, propsValue,
                 fileData, useHls, toggles, rendered, videoElement, hostContainer, hostVideo,
                 infoOverlays, toggleControls, retryTimer, streamUrlOf, videoSrc, tasks>>
  /\ UNCHANGED <<urlVars, qualityVars, restVars>>

DisposeHls ==
  /\ mounted = "mounted"
  /\ Dispose(cleanupHls(State))

DisposeDash ==
  /\ mounted = "mounted"
  /\ Dispose(cleanupDash(State))

DisposeReplacement ==
  /\ mounted = "mounted"
  /\ Dispose(cleanupReplacementPlayer(State))

DisposeNext == DisposeHls \/ DisposeDash \/ DisposeReplacement \/ RunReplace

SpecDispose == DisposeInit /\ [][DisposeNext]_vars

\* C24: disposal is idempotent: a second cleanupHls, cleanupDash or
\* cleanupReplacementPlayer leaves the state as the first call left it, and
\* calls destroy() on no instance
C24_DisposalIdempotent ==
  /\ cleanupHls(cleanupHls(State)) = cleanupHls(State)
  /\ DestroyCalls(cleanupHls(State).engines, {"hlsInstance"}) = {}
  /\ cleanupDash(cleanupDash(State)) = cleanupDash(State)
  /\ DestroyCalls(cleanupDash(State).engines, {"dashInstance"}) = {}
  /\ cleanupReplacementPlayer(cleanupReplacementPlayer(State)) = cleanupReplacementPlayer(State)
  /\ DestroyCalls(cleanupReplacementPlayer(State).engines,
                  {"replacementHlsInstance", "replacementDashInstance"}) = {}

\* every player was torn down, and the teardown destroyed an instance
C24_Witness ==
  /\ DestroyCalls(engines, PlayerRefs) = {}
  /\ destroyedOn = Elements
  /\ replacementVideoElement = 0


(***************************************************************************)
(* C25: callbacks of a session that is no longer the current one           *)
(***************************************************************************)

\* C25: a checkForCspError timer of a session that was torn down or replaced
\* by a newer session, when it fires, changes neither the quality label nor
\* the cspError of either player
C25_StaleCallbackIsNoOp ==
  [][RunStaleCspTimer => /\ currentQuality' = currentQuality
                         /\ cspError' = cspError
                         /\ dashCspError' = dashCspError]_vars


(***************************************************************************)
(* C26: the timers that outlive the component                              *)
(***************************************************************************)

\* C26: once the component is unmounted, no timer of
\* replaceDefaultVideoPlayer that was scheduled before the unmount
\* creates an engine instance, marks a host element as adopted, or sets the
\* source of a video element
C26_NoEffectAfterUnmount ==
  [][mounted = "unmounted" /\ RunReplace =>
       /\ \A i \in DOMAIN engines' : \E j \in DOMAIN engines : engines'[i] = engines[j]
       /\ replaced' \subseteq replaced
       /\ videoSrc' = videoSrc]_vars


(***************************************************************************)
(* C27: the detection state at the start of a session                      *)
(***************************************************************************)

\* the interface has torn the players down, cleanupHls(); cleanupDash(), and
\* no session was set up since
TornDown == ~hlsInstance /\ ~dashInstance /\ ~cspCallback

\* C27: when a setup starts a new session on the bound element after the
\* interface tore the previous one down, the cspError the interface exposes
\* is absent, whatever the session before it set and whichever player ran it
C27_NewSessionStartsClean ==
  [][TornDown /\ (SetupHlsSession \/ SetupDashSession) => ExposedCspError' = NULL]_vars


(***************************************************************************)
(* The CSP signals of a page with several player instances: the            *)
(* module-level activeErrorCallbacks and console interceptor, and the      *)
(* securitypolicyviolation listener of each useHlsPlayer instance          *)
(***************************************************************************)

\* the calls of console.error in a run
MaxSignals == 2

Unregister_All(callbacks, i) == {}

\* activeErrorCallbacks.delete(setCspError), removeEventListener(..., cspViolationListener)
Unregister(callbacks, i) == callbacks \ {i}

\* setCspError() of the instances that hear the signal
Notify(values, heard) ==
  [i \in Instances |->
     IF i \in heard THEN setCspError(values[i], <<"H", "L", "S">>) ELSE values[i]]

RegistryInit ==
  /\ UrlParked
  /\ QualityParked
  /\ PlayerParked
  /\ ObserverParked
  /\ SessionParked
  /\ RegistryParked
  /\ EditParked

RegistryOthers == UNCHANGED <<urlVars, qualityVars, playerVars, observerVars, sessionVars, editVars>>

\* useHlsPlayer(videoElement) of a component: the listener, the interceptor
\* and the callback are set up when the composable is created
UseHlsPlayer ==
  \E i \in Instances \ composables :
    /\ composables' = composables \cup {i}
    /\ violationListeners' = violationListeners \cup {i}
    /\ consoleErrorInterceptorActive' = TRUE
    /\ wraps' = IF consoleErrorInterceptorActive THEN wraps ELSE wraps + 1
    /\ activeErrorCallbacks' = activeErrorCallbacks \cup {i}
    /\ UNCHANGED <<instanceCspError, consoleCalls, originalCalls, lastSignal>>
    /\ RegistryOthers

\* cleanupHls() of the instance i
cleanupHlsOf(i) ==
  /\ i \in composables
  /\ instanceCspError' = [instanceCspError EXCEPT ![i] = NULL]
  /\ violationListeners' = Unregister(violationListeners, i)
  /\ activeErrorCallbacks' = Unregister(activeErrorCallbacks, i)
  /\ lastSignal' = <<"cleanup", i>>
  /\ UNCHANGED <<composables, consoleErrorInterceptorActive, wraps, consoleCalls, originalCalls>>
  /\ RegistryOthers

CleanupInstance ==
  /\ composables # {}
  /\ \E i \in Instances : cleanupHlsOf(i)

\* some script of the page calls console.error(message): the interceptor, when
\* it is installed, notifies the callbacks and hands the call on; without it
\* the call is the original console.error
ConsoleErrorCall ==
  \E error \in ConsoleErrors :
    /\ consoleCalls < MaxSignals
    /\ consoleCalls' = consoleCalls + 1
    /\ originalCalls' = originalCalls + 1
    /\ instanceCspError' =
         IF consoleErrorInterceptorActive /\ error \in CspConsoleErrors
           THEN Notify(instanceCspError, activeErrorCallbacks)
         ELSE instanceCspError
    /\ lastSignal' = <<"console", error[1]>>
    /\ UNCHANGED <<composables, activeErrorCallbacks, violationListeners,
                   consoleErrorInterceptorActive, wraps>>
    /\ RegistryOthers

\* the window fires securitypolicyviolation: the listeners of the instances run
ViolationEvent ==
  \E event \in PolicyViolations :
    /\ instanceCspError' =
         IF event \in CspViolations THEN Notify(instanceCspError, violationListeners)
         ELSE instanceCspError
    /\ lastSignal' = <<"violation", event>>
    /\ UNCHANGED <<composables, activeErrorCallbacks, violationListeners,
                   consoleErrorInterceptorActive, wraps, consoleCalls, originalCalls>>
    /\ RegistryOthers

RegistryNext ==
  \/ UseHlsPlayer
  \/ CleanupInstance
  \/ ConsoleErrorCall
  \/ ViolationEvent

SpecRegistry == RegistryInit /\ [][RegistryNext]_vars

(***************************************************************************)
(* C28: the security-policy violation events that set cspError             *)
(***************************************************************************)

\* the violated directive concerns media sources: media-src, or default-src,
\* which stands in for it
ConcernsMediaSources(directive) == directive \in {"media-src", "default-src"}

\* the blocked resource of the event is a blob URL: blockedURI is the URL, or
\* its scheme, as the browsers report a resource that is not of the network
IsBlobResource(blockedURI) == blockedURI = URI_BLOB_SCHEME \/ StartsWith(blockedURI, KW_BLOB)

\* C28: a securitypolicyviolation event sets cspError of every player whose
\* listener is registered when its directive concerns media sources and its
\* blocked resource is a blob URL, and any other event leaves cspError of
\* every player unchanged
C28_ViolationSetsCspError ==
  [][\A event \in PolicyViolations : ViolationEvent /\ lastSignal' = <<"violation", event>> =>
       IF ConcernsMediaSources(event[1]) /\ IsBlobResource(event[2])
         THEN \A i \in violationListeners : instanceCspError'[i] = CspErrorMessage(<<"H", "L", "S">>)
       ELSE instanceCspError' = instanceCspError]_vars


(***************************************************************************)
(* C29: several instances share the console interceptor                    *)
(***************************************************************************)

\* C29: a CSP signal reaches every instance that is registered when it is
\* dispatched and no other; the teardown of an instance removes the callback
\* and the listener of that instance only; console.error is replaced at most
\* once, and every call of it reaches the original console.error
C29_SharedDispatch ==
  [][/\ \A error \in ConsoleErrors :
          ConsoleErrorCall /\ lastSignal' = <<"console", error[1]>> =>
            /\ originalCalls' = originalCalls + 1
            /\ error \in CspConsoleErrors =>
                 \A i \in activeErrorCallbacks :
                   instanceCspError'[i] = CspErrorMessage(<<"H", "L", "S">>)
            /\ \A i \in Instances \ activeErrorCallbacks :
                 instanceCspError'[i] = instanceCspError[i]
     /\ \A event \in CspViolations :
          ViolationEvent /\ lastSignal' = <<"violation", event>> =>
            /\ \A i \in violationListeners :
                 instanceCspError'[i] = CspErrorMessage(<<"H", "L", "S">>)
            /\ \A i \in Instances \ violationListeners :
                 instanceCspError'[i] = instanceCspError[i]
     /\ \A i \in Instances :
          cleanupHlsOf(i) =>
            /\ activeErrorCallbacks' = activeErrorCallbacks \ {i}
            /\ violationListeners' = violationListeners \ {i}
     /\ wraps' <= 1
     /\ originalCalls' = consoleCalls']_vars

\* two instances were created, one was torn down, and the CSP message that
\* console.error got after that reached the other one only
C29_Witness ==
  \E i, j \in composables :
    /\ i \notin activeErrorCallbacks
    /\ j \in activeErrorCallbacks
    /\ lastSignal = <<"console", MSG_REFUSED>>
    /\ instanceCspError[i] = NULL
    /\ instanceCspError[j] = CspErrorMessage(<<"H", "L", "S">>)
    /\ wraps = 1
    /\ originalCalls = MaxSignals


(***************************************************************************)
(* C30: the violation listener during the sessions of a player             *)
(***************************************************************************)

\* C30: whenever a session set up by the controller is live on the bound
\* element and cspError is not set yet, a securitypolicyviolation event for
\* media-src with a blob: blocked URI sets cspError
C30_ViolationSurfaced ==
  hlsInstance /\ cspError = NULL =>
    ENABLED (securityPolicyViolation(<<"media-src", URI_BLOB>>) /\ cspError' # NULL)


(***************************************************************************)
(* C31: the host's source at the adoption                                  *)
(***************************************************************************)

\* C31: no engine instance is attached to an element that still has the
\* source the host gave it
C31_SourceClearedBeforeAttach ==
  \A i \in DOMAIN engines : videoSrc[engines[i].el] # HostPreviewSrc

\* the host's <video> came with its source and was adopted; an engine runs on
\* it and the source is gone
C31_Witness ==
  /\ hostVideo # 0
  /\ hostVideo \in replaced
  /\ videoSrc[hostVideo] = <<>>
  /\ \E i \in DOMAIN engines : engines[i].el = hostVideo


(***************************************************************************)
(* C32: what cleanupReplacementPlayer releases                             *)
(***************************************************************************)

\* the refs of the takeover player
ReplacementRefs == {"replacementHlsInstance", "replacementDashInstance"}

C33_EveryEngineTracked ==
  \A i \in DOMAIN engines : engines[i].held /\ engines[i].ref \in PlayerRefs


(***************************************************************************)
(* C34: the polling loops that wait for the component's own video element  *)
(***************************************************************************)

PollingTasks == {task \in tasks : task[1] \in {"whenReady", "mountReady", "checkVideo"}}

\* C34: every polling loop of the controller that waits for its own video
\* element (checkForVideo of the ref watcher and of the file request,
\* setupWhenReady of the value watcher, setupWhenReady of the mount hook)
\* stops after a fixed number of attempts, 10 or 20: no callback of such a
\* loop is pending after more than 20 runs of the loop.
C34_RetryLoopsStop ==
  \A task \in PollingTasks : task[2] <= WhenReadyAttempts


(***************************************************************************)
(* C35: the three formatQuality functions                                  *)
(***************************************************************************)

\* C35: for every rendition height the label formatQuality of the
\* replacement player computes in takeover mode equals the label the HLS
\* player's and the DASH player's formatQuality compute for that height.
C35_SameLabelInTakeover ==
  /\ {"replacement", "hls"} \subseteq qCalled => qLabelReplacement = qLabel
  /\ {"replacement", "dash"} \subseteq qCalled => qLabelReplacement = qLabelDash


(***************************************************************************)
(* C36: the includeClientIp option                                         *)
(***************************************************************************)

\* the options o with the includeIp option the other way round
C36_OtherIncludeIp(o) ==
  [o EXCEPT !.includeIp = IF IncludeIp(o) THEN <<FALSE>> ELSE <<TRUE>>]

\* C36: the generated token does not depend on the includeClientIp option:
\* for the same secret, ttl and time getStreamUrl returns the same URL, and
\* the builder computes the same token, with includeIp true and with
\* includeIp false.
C36_TokenIgnoresIncludeIp ==
  uCalled =>
    /\ getStreamUrl(uLink, C36_OtherIncludeIp(uOpts), uCallTime) = uResult
    /\ uOpts.streamSecret # <<>> =>
         TokenFor(uCallTime, C36_OtherIncludeIp(uOpts)) = TokenFor(uCallTime, uOpts)

\* a call with includeIp set, a secret and a template with a token: the URL
\* carries the token of the expiry and the secret alone
C36_Witness ==
  /\ uCalled
  /\ uOpts.includeIp = <<TRUE>>
  /\ uOpts.streamSecret = Secret
  /\ uOpts.urlSchema = SchemaReadme
  /\ uLink = RefPlaylist
  /\ Includes(uResult, generateSecurePathHash(ExpiresString(uCallTime, uOpts), NULL, Secret, FALSE))


(***************************************************************************)
(* The input of a string field: useInputOptions and useStringFieldHandlers *)
(***************************************************************************)

IsSpace(c) == c = " "

IsWordOrHyphen(c) ==
  \/ c \in {"_", "-"}
  \/ CharCode(c) >= 48 /\ CharCode(c) <= 57
  \/ CharCode(c) >= 65 /\ CharCode(c) <= 90
  \/ CharCode(c) >= 97 /\ CharCode(c) <= 122

RECURSIVE TrimStart(_)
TrimStart(s) == IF s # <<>> /\ IsSpace(s[1]) THEN TrimStart(Tail(s)) ELSE s

RECURSIVE TrimEnd(_)
TrimEnd(s) == IF s # <<>> /\ IsSpace(s[Len(s)]) THEN TrimEnd(SubSeq(s, 1, Len(s) - 1)) ELSE s

\* String.prototype.trim
Trim(s) == TrimEnd(TrimStart(s))

\* replace(/\s+/g, '-'): every run of white space becomes one hyphen
RECURSIVE SpacesToHyphen(_)
SpacesToHyphen(s) ==
  IF s = <<>> THEN <<>>
  ELSE IF IsSpace(s[1]) THEN <<"-">> \o SpacesToHyphen(TrimStart(s))
  ELSE <<s[1]>> \o SpacesToHyphen(Tail(s))

\* replace(/\-\-+/g, '-')
RECURSIVE CollapseHyphens(_)
CollapseHyphens(s) ==
  IF Len(s) < 2 THEN s
  ELSE IF s[1] = "-" /\ s[2] = "-" THEN CollapseHyphens(Tail(s))
  ELSE <<s[1]>> \o CollapseHyphens(Tail(s))

RECURSIVE StripLeadingHyphens(_)
StripLeadingHyphens(s) == IF s # <<>> /\ s[1] = "-" THEN StripLeadingHyphens(Tail(s)) ELSE s

RECURSIVE StripTrailingHyphens(_)
StripTrailingHyphens(s) ==
  IF s # <<>> /\ s[Len(s)] = "-" THEN StripTrailingHyphens(SubSeq(s, 1, Len(s) - 1)) ELSE s

slugify(text) ==
  StripTrailingHyphens(StripLeadingHyphens(CollapseHyphens(
    SelectSeq(SpacesToHyphen(Trim(ToLowerCase(text))), IsWordOrHyphen))))

\* processed.substring(0, softLength) when a soft length is set and exceeded
SoftLimit(value, options) ==
  IF options.softLength # Undefined /\ options.softLength[1] # 0
     /\ Len(value) > options.softLength[1]
    THEN SubSeq(value, 1, options.softLength[1])
  ELSE value

processValue(value, options) ==
  IF value = <<>> THEN value
  ELSE LET trimmed == IF options.trim THEN Trim(value) ELSE value
           slugged == IF options.slug THEN slugify(trimmed) ELSE trimmed
       IN SoftLimit(slugged, options)

\* inputOptions.value.clear ? '' : null
ClearedValue(options) == IF options.clear THEN <<>> ELSE NULL

\* the state of the handlers as a record
Editor ==
  [isEditingStringField |-> isEditingStringField, editingValue |-> editingValue,
   fieldValue |-> fieldValue, inputOptions |-> inputOptions, emitted |-> emitted]

\* emit('input', value)
Emit(e, value) == [e EXCEPT !.emitted = Append(@, value)]

editStringField(e) ==
  [e EXCEPT !.editingValue = IF Truthy(e.fieldValue) THEN e.fieldValue ELSE <<>>,
            !.isEditingStringField = TRUE]

clearStringField(e) ==
  [Emit(e, NULL) EXCEPT !.editingValue = NULL, !.isEditingStringField = TRUE]

\* a handler that hands every input to the parent at once
handleStringInput_Immediate(e, newValue) ==
  IF newValue = NULL THEN Emit(e, ClearedValue(e.inputOptions))
  ELSE Emit(e, processValue(newValue, e.inputOptions))

handleStringInput(e, newValue) ==
  IF e.isEditingStringField
    THEN IF newValue = NULL THEN [e EXCEPT !.editingValue = NULL]
         ELSE [e EXCEPT !.editingValue = SoftLimit(newValue, e.inputOptions)]
  ELSE IF newValue = NULL THEN Emit(e, ClearedValue(e.inputOptions))
  ELSE Emit(e, processValue(newValue, e.inputOptions))

finishEditing(e) ==
  IF ~e.isEditingStringField THEN e
  ELSE IF e.editingValue = NULL
    THEN [Emit(e, ClearedValue(e.inputOptions)) EXCEPT !.isEditingStringField = FALSE]
  ELSE [Emit(e, processValue(e.editingValue, e.inputOptions))
          EXCEPT !.isEditingStringField = FALSE]

resetEditingState(e) ==
  IF e.isEditingStringField
    THEN [e EXCEPT !.isEditingStringField = FALSE, !.editingValue = NULL]
  ELSE e

\* what the user can type into the input, null when the input is emptied
Typed ==
  {NULL, <<>>, <<"a">>, <<" ", "A", " ">>, <<"A", " ", " ", "b", "!">>, <<"-", "a", "-", "-", "b">>}

SoftLengths == {Undefined, <<2>>}

\* the `input` events of a run
MaxEmits == 2

ApplyEditor(e) ==
  /\ isEditingStringField' = e.isEditingStringField
  /\ editingValue' = e.editingValue
  /\ fieldValue' = e.fieldValue
  /\ inputOptions' = e.inputOptions
  /\ emitted' = e.emitted
  /\ UNCHANGED <<urlVars, qualityVars, playerVars, observerVars, sessionVars, registryVars>>

EditInit ==
  /\ isEditingStringField = FALSE
  /\ editingValue = NULL
  /\ fieldValue \in {NULL, <<"a">>}
  /\ inputOptions \in [softLength : SoftLengths, trim : BOOLEAN, clear : BOOLEAN, slug : BOOLEAN]
  /\ emitted = <<>>
  /\ UrlParked
  /\ QualityParked
  /\ PlayerParked
  /\ ObserverParked
  /\ SessionParked
  /\ RegistryParked

\* the user presses the edit button
EditStringField ==
  /\ Len(emitted) <= MaxEmits
  /\ ApplyEditor(editStringField(Editor))

\* the user presses the clear button
ClearStringField ==
  /\ Len(emitted) < MaxEmits
  /\ ApplyEditor(clearStringField(Editor))

\* the input reports a value
HandleStringInput ==
  /\ Len(emitted) < MaxEmits
  /\ \E newValue \in Typed : ApplyEditor(handleStringInput(Editor, newValue))

\* the input loses the focus
FinishEditing ==
  /\ Len(emitted) < MaxEmits
  /\ ApplyEditor(finishEditing(Editor))

\* the form hands the field the value emitted last, and the watcher of the
\* value resets the editing state
EmittedValueArrives ==
  /\ emitted # <<>>
  /\ emitted[Len(emitted)] # fieldValue
  /\ ApplyEditor(resetEditingState([Editor EXCEPT !.fieldValue = emitted[Len(emitted)]]))

EditNext ==
  \/ EditStringField
  \/ ClearStringField
  \/ HandleStringInput
  \/ FinishEditing
  \/ EmittedValueArrives

SpecEdit == EditInit /\ [][EditNext]_vars

(***************************************************************************)
(* C37: editing a string field                                             *)
(***************************************************************************)

\* C37: while isEditingStringField is true, handleStringInput changes only
\* editingValue and emits no `input` event; finishEditing emits exactly one
\* `input` event, with the processed editing value or with the cleared value
\* when the editing value is null, and leaves editing mode; finishEditing
\* while not editing emits nothing and changes nothing.
C37_EditingDefersInput ==
  [][/\ (isEditingStringField /\ HandleStringInput) =>
          /\ emitted' = emitted
          /\ isEditingStringField'
          /\ fieldValue' = fieldValue
          /\ inputOptions' = inputOptions
     /\ (isEditingStringField /\ FinishEditing) =>
          /\ emitted' = Append(emitted, IF editingValue = NULL THEN ClearedValue(inputOptions)
                                        ELSE processValue(editingValue, inputOptions))
          /\ ~isEditingStringField'
          /\ editingValue' = editingValue
          /\ fieldValue' = fieldValue
     /\ (~isEditingStringField /\ FinishEditing) => UNCHANGED editVars]_vars

\* the field left editing mode with the slug of what was typed as its one
\* emitted value
C37_Witness ==
  /\ ~isEditingStringField
  /\ inputOptions.slug
  /\ inputOptions.softLength = Undefined
  /\ editingValue = <<"A", " ", " ", "b", "!">>
  /\ emitted = << <<"a", "-", "b">> >>

=============================================================================
